---- MODULE Spec2Model ----
(***************************************************************************)
(* Receipt-ledger accountability engine (shieldproof): contract registry,  *)
(* milestone state machine and payment gate over an append-only ledger of  *)
(* receipts.  Amounts are counted in hundredths of a dollar, so the        *)
(* floating point tolerance 0.01 of register_contract is one unit.         *)
(* Further specifications cover the JSONL store and its anchors            *)
(* (SpecStore), overlapping calls of release_payment (SpecRace), the fold   *)
(* of milestone receipts (SpecFold) and the shipyard lifecycle              *)
(* (SpecShipyard).                                                          *)
(***************************************************************************)
EXTENDS Integers, Sequences, FiniteSets, TLC

VARIABLES ledger, last, pc, ship

vars == <<ledger, last, pc, ship>>

\* ---------------------------------------------------------------- bounds
MaxLedger == 5
MaxAnomalies == 1
MaxAllLedger == 4
NumContracts == 2
MaxShipReceipts == 9
MaxRaceLedger == 6
MaxFoldLedger == 4
MaxFlowLedger == 5
MaxWasteLedger == 6
MaxReconcileLedger == 7
MaxCrashLines == 3
MaxBatch == 5
MaxStoreLines == 2
MaxInitLines == 1

\* ------------------------------------------------------------- constants
None == "None"
NoTs == 0
Tolerance == 1
REQUIRE_VERIFIED_MILESTONE == TRUE

\* ---------------------------------------------------------------- inputs
CIDs == {"C1"}
MIDs == {"M1", "M2"}
Deliverables == {"D1"}
DeliverableHashes == {"H1"}
VerifierArgs == {"V1"}
RequestAmounts == {9}

Ms(id, amount, status) == [id |-> id, amount |-> amount, status |-> status]

RegAmounts == {0, 5}
RegMilestoneLists ==
    { <<Ms("M1", 2, "PAID"), Ms("M2", 4, "VERIFIED")>>,
      <<Ms("M1", 2, "PENDING"), Ms("M1", 3, "PENDING")>>,
      <<Ms("M1", 2, "PENDING"), Ms("M2", 5, "PENDING")>> }

Upd(sm, ms, sa, a) ==
    [setMilestones |-> sm, milestones |-> ms, setAmount |-> sa, amount_fixed |-> a]

AllMIDs == {"M1"}
AllMilestoneLists == {<<Ms("M1", 2, "PENDING"), Ms("M2", 4, "PENDING")>>}
AllUpdates == {Upd(FALSE, <<>>, TRUE, 7)}

\* the contract of 1,000,000 with two equal milestones and a payment
\* request of 600,000, in hundredths
ExampleAmounts == {100000000}
ExampleMilestoneLists ==
    {<<Ms("M1", 50000000, "PENDING"), Ms("M2", 50000000, "PENDING")>>}
ExampleRequests == {60000000}

\* the contracts of the baseline scenario, two milestones each
ScenarioContracts == SubSeq(<<"C1", "C2", "C3">>, 1, NumContracts)
ScenarioAmounts == {4, 5}
ScenarioMilestoneLists ==
    { <<Ms("M1", 2, "PENDING"), Ms("M2", 2, "PENDING")>>,
      <<Ms("M1", 2, "PENDING"), Ms("M2", 4, "PENDING")>> }

\* registrations of the sanctioned flow: amount 5 with milestones that sum
\* to it, that overshoot it within the tolerance, and that sum to it with a
\* negative amount among them
FlowAmounts == {5}
FlowMilestoneLists ==
    { <<Ms("M1", 2, "PENDING"), Ms("M2", 3, "PENDING")>>,
      <<Ms("M1", 2, "PENDING"), Ms("M2", 4, "PENDING")>>,
      <<Ms("M1", 7, "PENDING"), Ms("M2", -2, "PENDING")>> }

\* two contracts under audit, and a payment request above the amount of
\* the milestone it is for
WasteContracts == {"C1", "C2"}
WasteRequests == {3}

UpdateChoices ==
    { Upd(TRUE, <<Ms("M1", 5, "VERIFIED")>>, FALSE, 0),
      Upd(TRUE, <<Ms("M2", 3, "PENDING")>>, FALSE, 0) }

\* --------------------------------------------------------------- hashing
DualHash(d) == CASE d = "D1" -> "H1" [] d = "D2" -> "H2" [] OTHER -> "H0"

\* dual_hash as a digest without collisions: the digest of x is a record
\* holding x, so distinct inputs have distinct digests.  What is hashed is
\* bytes, the text json.dumps(d, sort_keys=True) of a dict, or the
\* concatenation of two digests.
dual_hash(x) == [sha256_blake3 |-> x]

Bytes(str) == [bytes |-> str]

Concat(h1, h2) == [left |-> h1, right |-> h2]

\* json.dumps(d, sort_keys=True): the one line of text that parses to d,
\* whatever the order in which the keys of d were set
Dumps(d) == [kind |-> "json", value |-> d]

\* one level of the Merkle tree at a time; an odd level repeats its last hash
RECURSIVE MerkleRoot(_)
MerkleRoot_CarryLast(hashes) ==
    IF Len(hashes) = 1 THEN hashes[1]
    ELSE MerkleRoot([i \in 1..((Len(hashes) + 1) \div 2) |->
                        IF 2 * i <= Len(hashes)
                        THEN dual_hash(Concat(hashes[2 * i - 1], hashes[2 * i]))
                        ELSE hashes[2 * i - 1]])

MerkleRoot(hashes) ==
    IF Len(hashes) = 1 THEN hashes[1]
    ELSE LET h == IF Len(hashes) % 2 = 1
                  THEN Append(hashes, hashes[Len(hashes)]) ELSE hashes
         IN MerkleRoot([i \in 1..(Len(h) \div 2) |->
                            dual_hash(Concat(h[2 * i - 1], h[2 * i]))])

merkle(items) ==
    IF items = <<>> THEN dual_hash(Bytes("empty"))
    ELSE MerkleRoot([i \in 1..Len(items) |-> dual_hash(Dumps(items[i]))])

\* -------------------------------------------------------------- receipts
Receipt(t) ==
    [receipt_type |-> t, contract_id |-> None, milestone_id |-> None,
     status |-> None, amount |-> 0, amount_fixed |-> 0, milestones |-> <<>>,
     metric |-> None, classification |-> None, action |-> None,
     deliverable_hash |-> None, verifier_id |-> None, verification_ts |-> NoTs,
     amount_paid |-> 0, amount_verified |-> 0, severity |-> None,
     expected_spend_usd |-> <<0, 1>>, actual_spend_usd |-> 0,
     variance_pct |-> <<0, 1>>, batch_size |-> 0]

emit_receipt_Overwrite(L, r) == <<r>>

emit_receipt(L, r) == Append(L, r)

emit_contract_receipt(L, c, amount, ms) ==
    emit_receipt(L, [Receipt("contract") EXCEPT !.contract_id = c,
                                               !.amount_fixed = amount,
                                               !.milestones = ms])

emit_milestone_receipt(L, c, m, st, dh, v, ts) ==
    emit_receipt(L, [Receipt("milestone") EXCEPT !.contract_id = c,
                                                !.milestone_id = m,
                                                !.status = st,
                                                !.deliverable_hash = dh,
                                                !.verifier_id = v,
                                                !.verification_ts = ts])

emit_payment_receipt(L, c, m, amount) ==
    emit_receipt(L, [Receipt("payment") EXCEPT !.contract_id = c,
                                              !.milestone_id = m,
                                              !.amount = amount])

Anomaly_Suspicious(metric, c, m, act) ==
    [Receipt("anomaly") EXCEPT !.metric = metric, !.contract_id = c,
                               !.milestone_id = m, !.action = act,
                               !.classification = "suspicious"]

Anomaly(metric, c, m, act) ==
    [Receipt("anomaly") EXCEPT !.metric = metric, !.contract_id = c,
                               !.milestone_id = m, !.action = act,
                               !.classification = "violation"]

\* ----------------------------------------------------------------- reads
query_receipts(L, t, c) ==
    SelectSeq(L, LAMBDA r : r.receipt_type = t /\ r.contract_id = c)

query_payments(L, c, m) ==
    SelectSeq(L, LAMBDA r : r.receipt_type = "payment" /\ r.contract_id = c
                            /\ r.milestone_id = m)

HasContract(L, c) == query_receipts(L, "contract", c) # <<>>

get_contract(L, c) ==
    LET cs == query_receipts(L, "contract", c) IN cs[Len(cs)]

\* dict comprehension {m["id"]: m.copy() ...}: one entry per id, at the
\* position of the id's first occurrence, holding its last occurrence
RECURSIVE DictValues(_, _)
DictValues(ms, i) ==
    IF i > Len(ms) THEN <<>>
    ELSE LET first == \A j \in 1..(i - 1) : ms[j].id # ms[i].id
             lastIdx == CHOOSE j \in i..Len(ms) :
                            /\ ms[j].id = ms[i].id
                            /\ \A k \in (j + 1)..Len(ms) : ms[k].id # ms[i].id
         IN (IF first THEN <<ms[lastIdx]>> ELSE <<>>) \o DictValues(ms, i + 1)

Entry(m) ==
    [id |-> m.id, amount |-> m.amount, status |-> m.status,
     deliverable_hash |-> None, verifier_id |-> None, verification_ts |-> NoTs]

ApplyReceipt_Overwrite(m, mr) ==
    [m EXCEPT !.status = mr.status,
              !.deliverable_hash = mr.deliverable_hash,
              !.verifier_id = mr.verifier_id,
              !.verification_ts = mr.verification_ts]

\* one milestone receipt applied to the folded entry: the status always,
\* the other three fields only when the receipt carries a value
ApplyReceipt(m, mr) ==
    [m EXCEPT !.status = mr.status,
              !.deliverable_hash =
                  IF mr.deliverable_hash # None THEN mr.deliverable_hash ELSE @,
              !.verifier_id =
                  IF mr.verifier_id # None THEN mr.verifier_id ELSE @,
              !.verification_ts =
                  IF mr.verification_ts # NoTs THEN mr.verification_ts ELSE @]

RECURSIVE ApplyReceipts(_, _, _)
ApplyReceipts(m, rs, i) ==
    IF i > Len(rs) THEN m
    ELSE ApplyReceipts(IF rs[i].milestone_id = m.id
                       THEN ApplyReceipt(m, rs[i]) ELSE m,
                       rs, i + 1)

get_contract_milestones(L, c) ==
    IF ~HasContract(L, c) THEN <<>>
    ELSE LET base == DictValues(get_contract(L, c).milestones, 1)
             rs == query_receipts(L, "milestone", c)
         IN [i \in 1..Len(base) |-> ApplyReceipts(Entry(base[i]), rs, 1)]

HasMilestone(L, c, m) ==
    LET ms == get_contract_milestones(L, c)
    IN \E i \in 1..Len(ms) : ms[i].id = m

get_milestone(L, c, m) ==
    LET ms == get_contract_milestones(L, c)
    IN ms[CHOOSE i \in 1..Len(ms) : ms[i].id = m]

RECURSIVE SumAmounts(_, _)
SumAmounts(s, i) == IF i > Len(s) THEN 0 ELSE s[i].amount + SumAmounts(s, i + 1)

total_paid(L, c) ==
    SumAmounts(SelectSeq(L, LAMBDA r : r.receipt_type = "payment"
                                       /\ r.contract_id = c), 1)

Abs(x) == IF x < 0 THEN -x ELSE x

\* ---------------------------------------------------------------- guards
AlreadyVerified_VerifiedOnly(milestone) ==
    milestone.status \in {"VERIFIED", "verified"}

AlreadyVerified(milestone) == milestone.status \in {"VERIFIED", "PAID", "verified"}

AlreadyPaid_Unchecked(L, c, m) == FALSE

AlreadyPaid(L, c, m) == query_payments(L, c, m) # <<>>

NotVerified_DeliveredAccepted(milestone) ==
    /\ REQUIRE_VERIFIED_MILESTONE
    /\ milestone.status \notin {"VERIFIED", "verified", "DELIVERED"}

NotVerified(milestone) ==
    REQUIRE_VERIFIED_MILESTONE /\ milestone.status \notin {"VERIFIED", "verified"}

DuplicateContract_Unchecked(L, c) == FALSE

DuplicateContract(L, c) == HasContract(L, c)

NonPositiveAmount(amount) == amount <= 0

SumMismatch_Unchecked(amount, ms) == FALSE

SumMismatch(amount, ms) == Abs(SumAmounts(ms, 1) - amount) > Tolerance

ReleaseReceipts_StatusFirst(L, c, m, milestone) ==
    emit_payment_receipt(
        emit_milestone_receipt(L, c, m, "PAID", milestone.deliverable_hash,
                               milestone.verifier_id, milestone.verification_ts),
        c, m, milestone.amount)

\* the two receipts of a successful release_payment, in emission order
ReleaseReceipts(L, c, m, milestone) ==
    emit_milestone_receipt(
        emit_payment_receipt(L, c, m, milestone.amount),
        c, m, "PAID", milestone.deliverable_hash,
        milestone.verifier_id, milestone.verification_ts)

\* ------------------------------------------------ reconciliation reads
\* Fractions are pairs <<numerator, denominator>> with a positive
\* denominator; the thresholds 0.05 and 0.15 are 1/20 and 3/20.
VARIANCE_THRESHOLD == <<1, 20>>
VARIANCE_CRITICAL == <<3, 20>>

VerifiedStates_PaidNotCounted == {"VERIFIED", "verified"}

VerifiedStates == {"VERIFIED", "PAID", "verified"}

CountStatus(ms, S) == Cardinality({i \in 1..Len(ms) : ms[i].status \in S})

list_payments(L, c) == query_receipts(L, "payment", c)

\* contract_total * (verified milestones / milestones), 0 without milestones
ExpectedSpend(L, c) ==
    LET ms == get_contract_milestones(L, c)
    IN IF Len(ms) = 0 THEN <<0, 1>>
       ELSE <<get_contract(L, c).amount_fixed * CountStatus(ms, VerifiedStates),
              Len(ms)>>

Variance_OverActual(L, c) ==
    LET e == ExpectedSpend(L, c)
        a == total_paid(L, c)
    IN IF e[1] > 0 THEN <<a * e[2] - e[1], a * e[2]>> ELSE <<0, 1>>

\* (actual - expected) / expected, and 0 when expected is not positive
Variance(L, c) ==
    LET e == ExpectedSpend(L, c)
        a == total_paid(L, c)
    IN IF e[1] > 0 THEN <<a * e[2] - e[1], e[1]>> ELSE <<0, 1>>

\* abs(v) > t for fractions v and t
Exceeds(v, t) == Abs(v[1]) > (t[1] * v[2]) \div t[2]

Severity(v) == IF Exceeds(v, VARIANCE_CRITICAL) THEN "critical" ELSE "warning"

emit_variance_receipt(L, c, e, a, v, sev) ==
    emit_receipt(L, [Receipt("variance") EXCEPT !.contract_id = c,
                                               !.expected_spend_usd = e,
                                               !.actual_spend_usd = a,
                                               !.variance_pct = v,
                                               !.severity = sev])

\* the ledger after check_variance(c)
CheckVariance(L, c) ==
    IF ~HasContract(L, c) THEN L
    ELSE LET v == Variance(L, c)
         IN IF Exceeds(v, VARIANCE_THRESHOLD)
            THEN emit_variance_receipt(L, c, ExpectedSpend(L, c),
                                       total_paid(L, c), v, Severity(v))
            ELSE L

RECURSIVE SumVerified(_, _)
SumVerified(ms, i) ==
    IF i > Len(ms) THEN 0
    ELSE (IF ms[i].status \in VerifiedStates THEN ms[i].amount ELSE 0)
         + SumVerified(ms, i + 1)

amount_verified(L, c) == SumVerified(get_contract_milestones(L, c), 1)

Overpaid(L, c) == total_paid(L, c) > amount_verified(L, c)

\* the payments of the contract whose milestone is in the folded list with
\* a status other than VERIFIED, PAID or verified
UnverifiedPayments(L, c) ==
    SelectSeq(list_payments(L, c),
              LAMBDA p : /\ HasMilestone(L, c, p.milestone_id)
                         /\ get_milestone(L, c, p.milestone_id).status
                                \notin VerifiedStates)

Disputed(L, c) ==
    CountStatus(get_contract_milestones(L, c), {"DISPUTED", "rejected"}) > 0

ReconcileStatus_OverpaidLast(L, c) ==
    IF ~HasContract(L, c) THEN "ERROR"
    ELSE LET s1 == IF UnverifiedPayments(L, c) # <<>>
                   THEN "UNVERIFIED_PAYMENT" ELSE "ON_TRACK"
             s2 == IF Disputed(L, c) THEN "DISPUTED" ELSE s1
         IN IF Overpaid(L, c) THEN "OVERPAID" ELSE s2

\* status of the report of reconcile_contract(c): ON_TRACK, overwritten by
\* the overpayment check, then by the unverified payments, then by the
\* disputes
ReconcileStatus(L, c) ==
    IF ~HasContract(L, c) THEN "ERROR"
    ELSE LET s1 == IF Overpaid(L, c) THEN "OVERPAID" ELSE "ON_TRACK"
             s2 == IF UnverifiedPayments(L, c) # <<>>
                   THEN "UNVERIFIED_PAYMENT" ELSE s1
         IN IF Disputed(L, c) THEN "DISPUTED" ELSE s2

OverpaymentAnomaly_AsPayment(L, c) ==
    [Receipt("payment") EXCEPT !.contract_id = c,
                               !.amount = total_paid(L, c) - amount_verified(L, c)]

OverpaymentAnomaly(L, c) ==
    [Receipt("anomaly") EXCEPT !.metric = "overpayment", !.contract_id = c,
                               !.amount_paid = total_paid(L, c),
                               !.amount_verified = amount_verified(L, c),
                               !.action = "investigate",
                               !.classification = "violation"]

UnverifiedPaymentAnomaly(c, p) ==
    [Receipt("anomaly") EXCEPT !.metric = "unverified_payment",
                               !.contract_id = c,
                               !.milestone_id = p.milestone_id,
                               !.amount = p.amount,
                               !.action = "investigate",
                               !.classification = "violation"]

\* the ledger after reconcile_contract(c)
ReconcileContract(L, c) ==
    IF ~HasContract(L, c) THEN L
    ELSE LET L1 == IF Overpaid(L, c)
                   THEN emit_receipt(L, OverpaymentAnomaly(L, c)) ELSE L
             ps == UnverifiedPayments(L, c)
         IN L1 \o [i \in 1..Len(ps) |-> UnverifiedPaymentAnomaly(c, ps[i])]

\* contract ids in first-appearance order of their contract receipts
RECURSIVE ContractIds(_, _)
ContractIds(L, i) ==
    IF i > Len(L) THEN <<>>
    ELSE (IF /\ L[i].receipt_type = "contract"
             /\ \A j \in 1..(i - 1) :
                    ~(L[j].receipt_type = "contract"
                      /\ L[j].contract_id = L[i].contract_id)
          THEN <<L[i].contract_id>> ELSE <<>>) \o ContractIds(L, i + 1)

\* the ledger after reconcile_all(), given the ids read at its start
RECURSIVE ReconcileAll(_, _, _)
ReconcileAll(L, ids, i) ==
    IF i > Len(ids) THEN L
    ELSE ReconcileAll(ReconcileContract(L, ids[i]), ids, i + 1)

RECURSIVE TotalPaidAmount(_, _, _)
TotalPaidAmount(L, ids, i) ==
    IF i > Len(ids) THEN 0
    ELSE total_paid(L, ids[i]) + TotalPaidAmount(L, ids, i + 1)

RECURSIVE TotalVerified(_, _, _)
TotalVerified(L, ids, i) ==
    IF i > Len(ids) THEN 0
    ELSE amount_verified(L, ids[i]) + TotalVerified(L, ids, i + 1)

\* waste_identified of get_waste_summary()
waste_identified(L) ==
    LET ids == ContractIds(L, 1)
        paid == TotalPaidAmount(L, ids, 1)
        verified == TotalVerified(L, ids, 1)
    IN IF paid > verified THEN paid - verified ELSE 0

\* ----------------------------------------------------------- bookkeeping
AnomalyCount(L) == Len(SelectSeq(L, LAMBDA r : r.receipt_type = "anomaly"))

Call(op, c, m, raised, passed) ==
    [op |-> op, contract_id |-> c, milestone_id |-> m, raised |-> raised,
     passed |-> passed, pre |-> Len(ledger)]

\* a stoprule: one anomaly receipt, then StopRule is raised
StopRule(op, metric, c, m, act, passed) ==
    /\ AnomalyCount(ledger) < MaxAnomalies
    /\ ledger' = emit_receipt(ledger, Anomaly(metric, c, m, act))
    /\ last' = Call(op, c, m, TRUE, passed)
    /\ UNCHANGED <<pc, ship>>

Returns(op, c, m, passed, L) ==
    /\ ledger' = L
    /\ last' = Call(op, c, m, FALSE, passed)
    /\ UNCHANGED <<pc, ship>>

\* -------------------------------------------------------------- shipyard
LIFECYCLE_PHASES ==
    <<"DESIGN", "KEEL_LAYING", "BLOCK_ASSEMBLY", "LAUNCH", "FITTING_OUT",
      "SEA_TRIALS", "DELIVERY">>

PHASE_COMPLETION_PCT ==
    [DESIGN |-> 10, KEEL_LAYING |-> 15, BLOCK_ASSEMBLY |-> 60, LAUNCH |-> 70,
     FITTING_OUT |-> 90, SEA_TRIALS |-> 98, DELIVERY |-> 100]

IsPhase(phase) == \E i \in 1..Len(LIFECYCLE_PHASES) : LIFECYCLE_PHASES[i] = phase

\* LIFECYCLE_PHASES.index(phase), counted from 0
PhaseIndex(phase) ==
    (CHOOSE i \in 1..Len(LIFECYCLE_PHASES) : LIFECYCLE_PHASES[i] = phase) - 1

\* targets offered to advance_phase: every phase and one unknown name
PhaseArgs == {LIFECYCLE_PHASES[i] : i \in 1..Len(LIFECYCLE_PHASES)} \cup {"REFIT"}

\* costs are in tenths of the baseline cost; the days of a phase are one of
\* two durations, the table PHASE_MIN_DAYS not being fixed here
BaselineCosts == {10}
BaselineDays == {7}
PhaseDays == {1, 2}
PhaseCosts == {2}
ShipIds == {"S1"}

\* no ship yet: a key that is absent from the dict is the empty sequence
NoShip ==
    [ship_id |-> None, current_phase |-> None, phase_index |-> 0,
     baseline_cost_usd |-> 0, baseline_days |-> 0,
     actual_cost_usd |-> 0, actual_days |-> 0,
     receipts |-> <<>>, milestones |-> <<>>, variance_history |-> <<>>,
     delivery_receipt |-> <<>>, final_overrun_pct |-> <<>>]

ShipMilestone(sh, milestone_id, phase, pct, variance_days) ==
    [receipt_type |-> "milestone", ship_id |-> sh.ship_id,
     milestone_id |-> milestone_id, phase |-> phase,
     completion_pct |-> pct, variance_days |-> variance_days]

KeelReceipt(id) == [receipt_type |-> "keel", ship_id |-> id]

\* the ship returned by create_ship
CreateShip(id, cost, days) ==
    LET sh == [NoShip EXCEPT !.ship_id = id, !.current_phase = "DESIGN",
                             !.baseline_cost_usd = cost, !.baseline_days = days]
        ms == ShipMilestone(sh, <<id, "DESIGN_START">>, "DESIGN", 0, <<0, 1>>)
    IN [sh EXCEPT !.receipts = <<KeelReceipt(id), ms>>, !.milestones = <<ms>>]

\* calculate_variance: the variances against the share (phase_index + 1) / 7
\* of the baseline, as fractions
CostVariancePct(sh) ==
    IF sh.baseline_cost_usd > 0
    THEN <<(sh.actual_cost_usd * Len(LIFECYCLE_PHASES)
               - sh.baseline_cost_usd * (sh.phase_index + 1)) * 100,
           Len(LIFECYCLE_PHASES) * sh.baseline_cost_usd>>
    ELSE <<0, 1>>

ScheduleVarianceDays(sh) ==
    <<sh.actual_days * Len(LIFECYCLE_PHASES)
          - sh.baseline_days * (sh.phase_index + 1), Len(LIFECYCLE_PHASES)>>

ScheduleVariancePct(sh) ==
    IF sh.baseline_days > 0
    THEN <<ScheduleVarianceDays(sh)[1] * 100,
           Len(LIFECYCLE_PHASES) * sh.baseline_days>>
    ELSE <<0, 1>>

\* the exception advance_phase raises for this target, None for the
\* successor; the message of the second stoprule names the phase after the
\* current one, and there is none after DELIVERY
AdvanceError(sh, phase) ==
    IF ~IsPhase(phase) THEN "StopRuleException"
    ELSE IF PhaseIndex(phase) = sh.phase_index + 1 THEN None
    ELSE IF sh.phase_index + 1 >= Len(LIFECYCLE_PHASES) THEN "IndexError"
    ELSE "StopRuleException"

Advance_NoMilestone(sh, phase, actual_days, actual_cost) ==
    LET s1 == [sh EXCEPT !.current_phase = phase,
                         !.phase_index = PhaseIndex(phase),
                         !.actual_days = @ + actual_days,
                         !.actual_cost_usd = @ + actual_cost]
        ms == ShipMilestone(s1, <<s1.ship_id, phase>>, phase,
                            PHASE_COMPLETION_PCT[phase],
                            ScheduleVarianceDays(s1))
    IN [s1 EXCEPT !.variance_history =
                      Append(@, [phase |-> phase,
                                 cost_variance_pct |-> CostVariancePct(s1),
                                 schedule_variance_pct |-> ScheduleVariancePct(s1)]),
                  !.receipts = Append(@, ms)]

\* the ship after a successful advance_phase
Advance(sh, phase, actual_days, actual_cost) ==
    LET s1 == [sh EXCEPT !.current_phase = phase,
                         !.phase_index = PhaseIndex(phase),
                         !.actual_days = @ + actual_days,
                         !.actual_cost_usd = @ + actual_cost]
        ms == ShipMilestone(s1, <<s1.ship_id, phase>>, phase,
                            PHASE_COMPLETION_PCT[phase],
                            ScheduleVarianceDays(s1))
    IN [s1 EXCEPT !.variance_history =
                      Append(@, [phase |-> phase,
                                 cost_variance_pct |-> CostVariancePct(s1),
                                 schedule_variance_pct |-> ScheduleVariancePct(s1)]),
                  !.milestones = Append(@, ms),
                  !.receipts = Append(@, ms)]

\* LIFECYCLE_PHASES.index(phase) if phase in LIFECYCLE_PHASES else -1
ExpectedIndex(phase) == IF IsPhase(phase) THEN PhaseIndex(phase) ELSE -1

\* validate_phase_sequence: the check of the first phase looks its index up
\* again when it is not 0, which raises ValueError for an unknown name and
\* otherwise never rejects; every later phase must have the index after the
\* one before it
ValidateError(phases) ==
    IF phases # <<>> /\ ~IsPhase(phases[1]) THEN "ValueError" ELSE None

validate_phase_sequence(phases) ==
    \A i \in 2..Len(phases) :
        ExpectedIndex(phases[i]) = ExpectedIndex(phases[i - 1]) + 1

\* the loop of complete_ship; days[i] is the duration taken for the phase
\* left at index i - 1
RECURSIVE AdvanceToDelivery(_, _)
AdvanceToDelivery(sh, days) ==
    IF sh.current_phase = "DELIVERY" THEN sh
    ELSE IF sh.phase_index + 1 >= Len(LIFECYCLE_PHASES) THEN sh
    ELSE AdvanceToDelivery(
             Advance(sh, LIFECYCLE_PHASES[sh.phase_index + 2],
                     days[sh.phase_index + 1], sh.baseline_cost_usd \div 10),
             days)

\* cost_overrun_pct of the delivery receipt, in percent
CostOverrunPct(sh) ==
    IF sh.baseline_cost_usd > 0
    THEN <<(sh.actual_cost_usd - sh.baseline_cost_usd) * 100, sh.baseline_cost_usd>>
    ELSE <<0, 1>>

DeliveryReceipt(sh) ==
    [receipt_type |-> "delivery", ship_id |-> sh.ship_id,
     final_cost_usd |-> sh.actual_cost_usd, total_days |-> sh.actual_days,
     cost_overrun_pct |-> CostOverrunPct(sh),
     receipt_merkle_root |-> merkle(sh.receipts)]

CompleteShip_NoLoop(sh, days) ==
    LET delivery == DeliveryReceipt(sh)
    IN [sh EXCEPT !.receipts = Append(@, delivery),
                  !.delivery_receipt = <<delivery>>,
                  !.final_overrun_pct = <<delivery.cost_overrun_pct>>]

\* the ship returned by complete_ship
CompleteShip(sh, days) ==
    LET s1 == AdvanceToDelivery(sh, days)
        delivery == DeliveryReceipt(s1)
    IN [s1 EXCEPT !.receipts = Append(@, delivery),
                  !.delivery_receipt = <<delivery>>,
                  !.final_overrun_pct = <<delivery.cost_overrun_pct>>]

\* ------------------------------------------------------ concurrent calls
\* callers of release_payment; each is at one point of the function, with
\* the arguments and the milestone it read
Procs == {1, 2}

Idle == [at |-> "idle", contract_id |-> None, milestone_id |-> None,
         milestone |-> <<>>]

\* calls run one at a time: no call starts while another is in progress
Sequential == [serialized |-> TRUE, proc |-> [p \in Procs |-> Idle]]

\* ------------------------------------------------------------------ Init
Init ==
    /\ ledger = <<>>
    /\ last = [op |-> "init", contract_id |-> None, milestone_id |-> None,
               raised |-> FALSE, passed |-> FALSE, pre |-> 0]
    /\ pc = Sequential
    /\ ship = NoShip

\* --------------------------------------------------------------- actions
Normalize_Keep(ms) == ms

\* every milestone of a registration gets status PENDING
Normalize(ms) == [i \in 1..Len(ms) |-> [ms[i] EXCEPT !.status = "PENDING"]]

register_contract(c, amount, ms) ==
    IF DuplicateContract(ledger, c)
    THEN StopRule("register_contract", "duplicate_contract", c, None, "reject", FALSE)
    ELSE IF NonPositiveAmount(amount)
    THEN StopRule("register_contract", "invalid_amount", c, None, "reject", FALSE)
    ELSE IF SumMismatch(amount, ms)
    THEN StopRule("register_contract", "invalid_amount", c, None, "reject", FALSE)
    ELSE Returns("register_contract", c, None, FALSE,
                 emit_contract_receipt(ledger, c, amount, Normalize(ms)))

update_contract(c, u) ==
    IF ~HasContract(ledger, c)
    THEN StopRule("update_contract", "unknown_contract", c, None, "reject", FALSE)
    ELSE LET old == get_contract(ledger, c)
         IN Returns("update_contract", c, None, FALSE,
                    emit_contract_receipt(ledger, c,
                        IF u.setAmount THEN u.amount_fixed ELSE old.amount_fixed,
                        IF u.setMilestones THEN u.milestones ELSE old.milestones))

submit_milestone(c, m, dh) ==
    IF ~HasContract(ledger, c)
    THEN StopRule("submit_milestone", "unknown_contract", c, None, "reject", FALSE)
    ELSE IF ~HasMilestone(ledger, c, m)
    THEN StopRule("submit_milestone", "unknown_milestone", c, m, "reject", FALSE)
    ELSE Returns("submit_milestone", c, m, FALSE,
                 emit_milestone_receipt(ledger, c, m, "submitted", dh, None, NoTs))

submit_deliverable(c, m, d) ==
    IF ~HasContract(ledger, c)
    THEN StopRule("submit_deliverable", "unknown_contract", c, None, "reject", FALSE)
    ELSE IF ~HasMilestone(ledger, c, m)
    THEN StopRule("submit_deliverable", "unknown_milestone", c, m, "reject", FALSE)
    ELSE Returns("submit_deliverable", c, m, FALSE,
                 emit_milestone_receipt(ledger, c, m, "DELIVERED",
                                        DualHash(d), None, NoTs))

verify_milestone(c, m, v, passed) ==
    IF ~HasContract(ledger, c)
    THEN StopRule("verify_milestone", "unknown_contract", c, None, "reject", passed)
    ELSE IF ~HasMilestone(ledger, c, m)
    THEN StopRule("verify_milestone", "unknown_milestone", c, m, "reject", passed)
    ELSE LET milestone == get_milestone(ledger, c, m)
             actual_verifier_id == IF v # None THEN v ELSE m
         IN IF AlreadyVerified(milestone)
            THEN StopRule("verify_milestone", "already_verified", c, m, "reject", passed)
            ELSE Returns("verify_milestone", c, m, passed,
                         emit_milestone_receipt(ledger, c, m,
                             IF passed THEN "VERIFIED" ELSE "DISPUTED",
                             milestone.deliverable_hash,
                             actual_verifier_id, Len(ledger) + 1))

request_payment(c, m, amount_usd) ==
    IF \/ ~HasMilestone(ledger, c, m)
       \/ get_milestone(ledger, c, m).status \notin {"VERIFIED", "verified"}
    THEN /\ AnomalyCount(ledger) < MaxAnomalies
         /\ ledger' = emit_receipt(ledger,
                [Anomaly(None, c, m, "halt") EXCEPT !.amount = amount_usd])
         /\ last' = Call("request_payment", c, m, TRUE, FALSE)
         /\ UNCHANGED <<pc, ship>>
    ELSE IF AlreadyPaid(ledger, c, m)
    THEN StopRule("request_payment", "already_paid", c, m, "reject", FALSE)
    ELSE Returns("request_payment", c, m, FALSE,
                 emit_payment_receipt(ledger, c, m, amount_usd))

release_payment(c, m) ==
    IF ~HasMilestone(ledger, c, m)
    THEN StopRule("release_payment", "unverified_milestone", c, m, "halt", FALSE)
    ELSE LET milestone == get_milestone(ledger, c, m)
         IN IF AlreadyPaid(ledger, c, m)
            THEN StopRule("release_payment", "already_paid", c, m, "reject", FALSE)
            ELSE IF NotVerified(milestone)
            THEN StopRule("release_payment", "unverified_milestone", c, m, "halt", FALSE)
            ELSE Returns("release_payment", c, m, FALSE,
                         ReleaseReceipts(ledger, c, m, milestone))

\* the ledger has fewer than n receipts before the step, and at most n
\* after it
Room(n) == Len(ledger) < n

Within(n) == Len(ledger') <= n

Next ==
    \/ \E c \in CIDs, a \in RegAmounts, ms \in RegMilestoneLists :
           Room(MaxLedger) /\ register_contract(c, a, ms) /\ Within(MaxLedger)
    \/ \E c \in CIDs, u \in UpdateChoices :
           Room(MaxLedger) /\ update_contract(c, u) /\ Within(MaxLedger)
    \/ \E c \in CIDs, m \in MIDs, dh \in DeliverableHashes :
           Room(MaxLedger) /\ submit_milestone(c, m, dh) /\ Within(MaxLedger)
    \/ \E c \in CIDs, m \in MIDs, d \in Deliverables :
           Room(MaxLedger) /\ submit_deliverable(c, m, d) /\ Within(MaxLedger)
    \/ \E c \in CIDs, m \in MIDs, v \in VerifierArgs, p \in BOOLEAN :
           Room(MaxLedger) /\ verify_milestone(c, m, v, p) /\ Within(MaxLedger)
    \/ \E c \in CIDs, m \in MIDs, a \in RequestAmounts :
           Room(MaxLedger) /\ request_payment(c, m, a) /\ Within(MaxLedger)
    \/ \E c \in CIDs, m \in MIDs :
           Room(MaxLedger) /\ release_payment(c, m) /\ Within(MaxLedger)

Spec == Init /\ [][Next]_vars

\* ------------------------------------------- reconciliation and anchoring
check_variance(c) ==
    Returns("check_variance", c, None, FALSE, CheckVariance(ledger, c))

reconcile_contract(c) ==
    Returns("reconcile_contract", c, None, FALSE, ReconcileContract(ledger, c))

reconcile_all ==
    Returns("reconcile_all", None, None, FALSE,
            ReconcileAll(ledger, ContractIds(ledger, 1), 1))

get_waste_summary ==
    Returns("get_waste_summary", None, None, FALSE,
            ReconcileAll(ledger, ContractIds(ledger, 1), 1))

\* anchor_batch over the receipts of the store; the anchor receipt reaches
\* the ledger only when a path is given
anchor_batch(has_path) ==
    Returns("anchor_batch", None, None, FALSE,
            IF has_path
            THEN emit_receipt(ledger, [Receipt("anchor") EXCEPT
                                           !.batch_size = Len(ledger)])
            ELSE ledger)

\* every operation of the contract, milestone, payment, reconcile and
\* anchor modules, on one contract and its first milestone
NextAll ==
    \/ \E c \in CIDs, a \in RegAmounts, ms \in AllMilestoneLists :
           Room(MaxAllLedger) /\ register_contract(c, a, ms) /\ Within(MaxAllLedger)
    \/ \E c \in CIDs, u \in AllUpdates :
           Room(MaxAllLedger) /\ update_contract(c, u) /\ Within(MaxAllLedger)
    \/ \E c \in CIDs, m \in AllMIDs, dh \in DeliverableHashes :
           Room(MaxAllLedger) /\ submit_milestone(c, m, dh) /\ Within(MaxAllLedger)
    \/ \E c \in CIDs, m \in AllMIDs, d \in Deliverables :
           Room(MaxAllLedger) /\ submit_deliverable(c, m, d) /\ Within(MaxAllLedger)
    \/ \E c \in CIDs, m \in AllMIDs, v \in VerifierArgs, p \in BOOLEAN :
           Room(MaxAllLedger) /\ verify_milestone(c, m, v, p) /\ Within(MaxAllLedger)
    \/ \E c \in CIDs, m \in AllMIDs, a \in RequestAmounts :
           Room(MaxAllLedger) /\ request_payment(c, m, a) /\ Within(MaxAllLedger)
    \/ \E c \in CIDs, m \in AllMIDs :
           Room(MaxAllLedger) /\ release_payment(c, m) /\ Within(MaxAllLedger)
    \/ \E c \in CIDs : check_variance(c) /\ Within(MaxAllLedger)
    \/ \E c \in CIDs : reconcile_contract(c) /\ Within(MaxAllLedger)
    \/ reconcile_all /\ Within(MaxAllLedger)
    \/ get_waste_summary /\ Within(MaxAllLedger)
    \/ \E has_path \in BOOLEAN : anchor_batch(has_path) /\ Within(MaxAllLedger)

SpecAll == Init /\ [][NextAll]_vars

\* the sanctioned operations, with the two reconciliation reads
NextSanctioned ==
    \/ \E c \in CIDs, a \in RegAmounts, ms \in RegMilestoneLists :
           Room(MaxLedger) /\ register_contract(c, a, ms) /\ Within(MaxLedger)
    \/ \E c \in CIDs, m \in MIDs, d \in Deliverables :
           Room(MaxLedger) /\ submit_deliverable(c, m, d) /\ Within(MaxLedger)
    \/ \E c \in CIDs, m \in MIDs, v \in VerifierArgs, p \in BOOLEAN :
           Room(MaxLedger) /\ verify_milestone(c, m, v, p) /\ Within(MaxLedger)
    \/ \E c \in CIDs, m \in MIDs :
           Room(MaxLedger) /\ release_payment(c, m) /\ Within(MaxLedger)
    \/ \E c \in CIDs : check_variance(c) /\ Within(MaxLedger)
    \/ \E c \in CIDs : reconcile_contract(c) /\ Within(MaxLedger)

SpecSanctioned == Init /\ [][NextSanctioned]_vars

\* the worked example: one contract, verification and payment requests
NextExample ==
    \/ \E c \in CIDs, a \in ExampleAmounts, ms \in ExampleMilestoneLists :
           Room(MaxLedger) /\ register_contract(c, a, ms) /\ Within(MaxLedger)
    \/ \E c \in CIDs, m \in MIDs, v \in VerifierArgs, p \in BOOLEAN :
           Room(MaxLedger) /\ verify_milestone(c, m, v, p) /\ Within(MaxLedger)
    \/ \E c \in CIDs, m \in MIDs, a \in ExampleRequests :
           Room(MaxLedger) /\ request_payment(c, m, a) /\ Within(MaxLedger)
    \/ \E c \in CIDs, m \in MIDs :
           Room(MaxLedger) /\ release_payment(c, m) /\ Within(MaxLedger)
    \/ \E c \in CIDs : check_variance(c) /\ Within(MaxLedger)
    \/ \E c \in CIDs : reconcile_contract(c) /\ Within(MaxLedger)

SpecExample == Init /\ [][NextExample]_vars

\* the baseline scenario: register every contract, deliver every
\* milestone, verify every milestone, release every payment, then audit
Registered(L) == ContractIds(L, 1)

AllStatusIn(L, S) ==
    /\ Len(Registered(L)) = NumContracts
    /\ \A k \in 1..NumContracts :
           LET ms == get_contract_milestones(L, ScenarioContracts[k])
           IN \A i \in 1..Len(ms) : ms[i].status \in S

\* milestone i of contract k is the first, in the order of the scenario's
\* loops, whose folded status is st
IsNext(L, k, i, st) ==
    LET Status(k2, i2) ==
            get_contract_milestones(L, ScenarioContracts[k2])[i2].status
    IN /\ i <= Len(get_contract_milestones(L, ScenarioContracts[k]))
       /\ Status(k, i) = st
       /\ \A k2 \in 1..k :
              \A i2 \in 1..Len(get_contract_milestones(L, ScenarioContracts[k2])) :
                  (k2 < k \/ i2 < i) => Status(k2, i2) # st

MilestoneId(L, k, i) == get_contract(L, ScenarioContracts[k]).milestones[i].id

NextBaseline ==
    \/ \E a \in ScenarioAmounts, ms \in ScenarioMilestoneLists :
           /\ Len(Registered(ledger)) < NumContracts
           /\ register_contract(ScenarioContracts[Len(Registered(ledger)) + 1],
                                a, ms)
    \/ \E k \in 1..NumContracts, i \in 1..2, d \in Deliverables :
           /\ AllStatusIn(ledger, {"PENDING", "DELIVERED"})
           /\ IsNext(ledger, k, i, "PENDING")
           /\ submit_deliverable(ScenarioContracts[k],
                                 MilestoneId(ledger, k, i), d)
    \/ \E k \in 1..NumContracts, i \in 1..2, v \in VerifierArgs :
           /\ AllStatusIn(ledger, {"DELIVERED", "VERIFIED"})
           /\ IsNext(ledger, k, i, "DELIVERED")
           /\ verify_milestone(ScenarioContracts[k],
                               MilestoneId(ledger, k, i), v, TRUE)
    \/ \E k \in 1..NumContracts, i \in 1..2 :
           /\ AllStatusIn(ledger, {"VERIFIED", "PAID"})
           /\ IsNext(ledger, k, i, "VERIFIED")
           /\ release_payment(ScenarioContracts[k], MilestoneId(ledger, k, i))
    \/ \E k \in 1..NumContracts :
           /\ AllStatusIn(ledger, {"PAID"})
           /\ \/ k = 1 /\ last.op = "release_payment"
              \/ /\ k > 1
                 /\ last.op = "check_variance"
                 /\ last.contract_id = ScenarioContracts[k - 1]
           /\ check_variance(ScenarioContracts[k])
    \/ /\ last.op = "check_variance"
       /\ last.contract_id = ScenarioContracts[NumContracts]
       /\ reconcile_all
    \/ /\ last.op = "reconcile_all"
       /\ get_waste_summary

SpecBaseline == Init /\ [][NextBaseline]_vars

\* ------------------------------------------------------ shipyard actions
\* the record of a call on the ship: the target phase, the exception the
\* call raised (None when it returned) and the ship as it was at the call
ShipCall(op, phase, exc) ==
    [op |-> op, contract_id |-> None, milestone_id |-> None,
     raised |-> exc # None, passed |-> FALSE, pre |-> Len(ledger),
     phase |-> phase, exc |-> exc, before |-> ship]

create_ship(id, cost, days) ==
    /\ ship' = CreateShip(id, cost, days)
    /\ last' = ShipCall("create_ship", None, None)
    /\ UNCHANGED <<ledger, pc>>

advance_phase(phase, actual_days, actual_cost) ==
    /\ ship # NoShip
    /\ ship' = IF AdvanceError(ship, phase) = None
               THEN Advance(ship, phase, actual_days, actual_cost)
               ELSE ship
    /\ last' = ShipCall("advance_phase", phase, AdvanceError(ship, phase))
    /\ UNCHANGED <<ledger, pc>>

complete_ship(days) ==
    /\ ship # NoShip
    /\ ship' = CompleteShip(ship, days)
    /\ last' = ShipCall("complete_ship", None, None)
    /\ UNCHANGED <<ledger, pc>>

NextShipyard ==
    \/ \E id \in ShipIds, cost \in BaselineCosts, days \in BaselineDays :
           /\ ship = NoShip
           /\ create_ship(id, cost, days)
    \/ \E phase \in PhaseArgs, d \in PhaseDays, cost \in PhaseCosts :
           /\ advance_phase(phase, d, cost)
           /\ Len(ship'.receipts) <= MaxShipReceipts
    \/ \E days \in [1..(Len(LIFECYCLE_PHASES) - 1) -> PhaseDays] :
           /\ complete_ship(days)
           /\ Len(ship'.receipts) <= MaxShipReceipts

SpecShipyard == Init /\ [][NextShipyard]_vars

\* ------------------------------------------- release_payment, step by step
\* Each read of the ledger file and each append to it is one step.  A
\* stoprule's anomaly receipt is appended in the step that decides to raise.
AllIdle_NoLock == TRUE

\* no call of release_payment is in progress
AllIdle == \A p \in Procs : pc.proc[p] = Idle

At(p, at) == pc.proc[p].at = at

Goto(p, at, c, m, milestone) ==
    pc' = [pc EXCEPT !.proc[p] = [at |-> at, contract_id |-> c,
                                  milestone_id |-> m, milestone |-> milestone]]

RaceStopRule(p, metric, act) ==
    /\ AnomalyCount(ledger) < MaxAnomalies
    /\ ledger' = emit_receipt(ledger, Anomaly(metric, pc.proc[p].contract_id,
                                              pc.proc[p].milestone_id, act))
    /\ last' = Call("release_payment", pc.proc[p].contract_id,
                    pc.proc[p].milestone_id, TRUE, FALSE)
    /\ pc' = [pc EXCEPT !.proc[p] = Idle]
    /\ UNCHANGED ship

\* milestone = get_milestone(contract_id, milestone_id)
release_get_milestone(p, c, m) ==
    /\ At(p, "idle")
    /\ pc.serialized => AllIdle
    /\ IF ~HasMilestone(ledger, c, m)
       THEN /\ AnomalyCount(ledger) < MaxAnomalies
            /\ ledger' = emit_receipt(ledger,
                             Anomaly("unverified_milestone", c, m, "halt"))
            /\ last' = Call("release_payment", c, m, TRUE, FALSE)
            /\ UNCHANGED <<pc, ship>>
       ELSE /\ Goto(p, "query_payments", c, m, <<get_milestone(ledger, c, m)>>)
            /\ UNCHANGED <<ledger, last, ship>>

\* existing_payments = query_receipts("payment", ...), then the status check
\* on the milestone read before
release_query_payments(p) ==
    /\ At(p, "query_payments")
    /\ IF AlreadyPaid(ledger, pc.proc[p].contract_id, pc.proc[p].milestone_id)
       THEN RaceStopRule(p, "already_paid", "reject")
       ELSE IF NotVerified(pc.proc[p].milestone[1])
       THEN RaceStopRule(p, "unverified_milestone", "halt")
       ELSE /\ Goto(p, "emit_payment", pc.proc[p].contract_id,
                    pc.proc[p].milestone_id, pc.proc[p].milestone)
            /\ UNCHANGED <<ledger, last, ship>>

release_emit_payment(p) ==
    /\ At(p, "emit_payment")
    /\ ledger' = emit_payment_receipt(ledger, pc.proc[p].contract_id,
                     pc.proc[p].milestone_id, pc.proc[p].milestone[1].amount)
    /\ Goto(p, "emit_milestone", pc.proc[p].contract_id,
            pc.proc[p].milestone_id, pc.proc[p].milestone)
    /\ UNCHANGED <<last, ship>>

release_emit_milestone(p) ==
    /\ At(p, "emit_milestone")
    /\ ledger' = emit_milestone_receipt(ledger, pc.proc[p].contract_id,
                     pc.proc[p].milestone_id, "PAID",
                     pc.proc[p].milestone[1].deliverable_hash,
                     pc.proc[p].milestone[1].verifier_id,
                     pc.proc[p].milestone[1].verification_ts)
    /\ last' = Call("release_payment", pc.proc[p].contract_id,
                    pc.proc[p].milestone_id, FALSE, FALSE)
    /\ pc' = [pc EXCEPT !.proc[p] = Idle]
    /\ UNCHANGED ship

\* callers either take turns or overlap freely
InitRace ==
    /\ ledger = <<>>
    /\ last = [op |-> "init", contract_id |-> None, milestone_id |-> None,
               raised |-> FALSE, passed |-> FALSE, pre |-> 0]
    /\ pc \in {[Sequential EXCEPT !.serialized = b] : b \in BOOLEAN}
    /\ ship = NoShip

NextRace ==
    \/ \E c \in CIDs, a \in RegAmounts, ms \in AllMilestoneLists :
           Room(MaxRaceLedger) /\ register_contract(c, a, ms) /\ Within(MaxRaceLedger)
    \/ \E c \in CIDs, m \in AllMIDs, v \in VerifierArgs, p \in BOOLEAN :
           Room(MaxRaceLedger) /\ verify_milestone(c, m, v, p) /\ Within(MaxRaceLedger)
    \/ \E p \in Procs, c \in CIDs, m \in AllMIDs :
           Room(MaxRaceLedger) /\ release_get_milestone(p, c, m) /\ Within(MaxRaceLedger)
    \/ \E p \in Procs :
           Room(MaxRaceLedger) /\ release_query_payments(p) /\ Within(MaxRaceLedger)
    \/ \E p \in Procs :
           Room(MaxRaceLedger) /\ release_emit_payment(p) /\ Within(MaxRaceLedger)
    \/ \E p \in Procs :
           Room(MaxRaceLedger) /\ release_emit_milestone(p) /\ Within(MaxRaceLedger)

SpecRace == InitRace /\ [][NextRace]_vars

\* the same callers, with the two reconciliation reads running at any
\* point of a release_payment
NextSnapshot ==
    \/ Room(MaxRaceLedger) /\ NextRace
    \/ \E c \in CIDs :
           Room(MaxRaceLedger) /\ check_variance(c) /\ Within(MaxRaceLedger)
    \/ \E c \in CIDs :
           Room(MaxRaceLedger) /\ reconcile_contract(c) /\ Within(MaxRaceLedger)

SpecSnapshot == InitRace /\ [][NextSnapshot]_vars

\* ------------------------------------------------- the receipt store file
\* Here the ledger is the JSONL file itself, a sequence of lines.  A line is
\* a JSON text, a blank line, a text that is not JSON (a corrupt or partial
\* record), or bytes that are not text in the encoding the file is read in.
TENANT_ID == "shieldproof"

BlankLine == [kind |-> "blank", value |-> [raw |-> " "]]

MalformedLine == [kind |-> "malformed", value |-> [raw |-> "{\"amount\": "]]

UndecodableLine == [kind |-> "undecodable", value |-> [raw |-> "0xFF"]]

\* the start of a record whose write was cut short: the last line of the
\* file, with no newline after it
PartialLine == [kind |-> "partial", value |-> [raw |-> "{\"amount\": "]]

\* open(path, "a") and f.write(text + "\n"): the text goes after the last
\* byte of the file, so it continues a last line that has no newline and
\* the two make one line that is not a JSON text
WriteLine(L, line) ==
    IF L # <<>> /\ L[Len(L)].kind = "partial"
    THEN [L EXCEPT ![Len(L)] =
             [kind |-> "malformed",
              value |-> [head |-> L[Len(L)].value, tail |-> line]]]
    ELSE Append(L, line)

\* {**base, **data}: the keys of both, data winning
Merge(base, data) ==
    [k \in DOMAIN base \cup DOMAIN data |->
        IF k \in DOMAIN data THEN data[k] ELSE base[k]]

\* the receipt dict emit_receipt builds
EmitReceipt(t, data, ts) ==
    Merge([receipt_type |-> t, ts |-> ts,
           tenant_id |-> IF "tenant_id" \in DOMAIN data
                         THEN data.tenant_id ELSE TENANT_ID,
           payload_hash |-> dual_hash(Dumps(data))],
          data)

\* the clock: one tick per line of the file
Now(L) == Len(L) + 1

StoreTypes == {"payment"}

StoreData ==
    { [amount |-> 1], [amount |-> 2, tenant_id |-> "T2"] }

\* receipts handed to append_receipt, add_to_ledger, anchor_batch and
\* verify_anchor: two that emit_receipt returned and a dict built by hand
GivenReceipts ==
    { EmitReceipt("payment", [amount |-> 1], 1),
      EmitReceipt("payment", [amount |-> 2, tenant_id |-> "T2"], 2),
      [receipt_type |-> "note", amount |-> 3] }

Batches ==
    {<<>>} \cup {<<r>> : r \in GivenReceipts}
           \cup {<<r1, r2>> : r1 \in GivenReceipts, r2 \in GivenReceipts}

InitLines ==
    {BlankLine, MalformedLine, UndecodableLine,
     Dumps(EmitReceipt("payment", [amount |-> 1], 1))}

\* the files load_receipts may find: up to MaxInitLines lines
InitFiles == UNION {[1..n -> InitLines] : n \in 0..MaxInitLines}

\* the same files after a crash in the middle of a write
CrashFiles == {f \o <<PartialLine>> : f \in InitFiles}

\* the lines load_receipts keeps: stripped, non-empty, and parsed by
\* json.loads without JSONDecodeError
RECURSIVE ParsedLines(_, _)
ParsedLines(L, i) ==
    IF i > Len(L) THEN <<>>
    ELSE (IF L[i].kind = "json" THEN <<L[i].value>> ELSE <<>>)
             \o ParsedLines(L, i + 1)

\* iterating the text file decodes each line; a line that cannot be decoded
\* raises UnicodeDecodeError when the encoding is strict about it
LoadError(L, strict) ==
    IF strict /\ \E i \in 1..Len(L) : L[i].kind = "undecodable"
    THEN "UnicodeDecodeError" ELSE None

\* the anchor receipt anchor_batch returns
AnchorBatch(receipts, ts) ==
    EmitReceipt("anchor",
                [tenant_id |-> TENANT_ID, merkle_root |-> merkle(receipts),
                 batch_size |-> Len(receipts), hash_algos |-> "SHA256,BLAKE3"],
                ts)

\* dict.get(key) for the hashes and ids of a receipt: a record holding the
\* value when the key is present, NoKey when it is not
NoKey == [none |-> None]

Get(d, key) == IF key \in DOMAIN d THEN d[key] ELSE NoKey

VerifyAnchor(receipt, anchor) ==
    LET anchor_type == IF "anchor_type" \in DOMAIN anchor
                       THEN anchor.anchor_type ELSE "single"
    IN IF anchor_type = "single"
       THEN Get(anchor, "receipt_hash") = dual_hash(Dumps(receipt))
       ELSE IF anchor_type = "chain"
       THEN LET receipt_id == IF "receipt_id" \in DOMAIN receipt
                              THEN receipt.receipt_id
                              ELSE Get(receipt, "payload_hash")
                receipt_ids == IF "receipt_ids" \in DOMAIN anchor
                               THEN anchor.receipt_ids ELSE <<>>
            IN \E i \in 1..Len(receipt_ids) : receipt_ids[i] = receipt_id
       ELSE FALSE

\* the record of a call on the store: the exception it raised (None when it
\* returned), what it returned, and the arguments the later reads refer to
StoreCall(op, exc, result, batch, receipt) ==
    [op |-> op, contract_id |-> None, milestone_id |-> None,
     raised |-> exc # None, passed |-> FALSE, pre |-> Len(ledger),
     exc |-> exc, result |-> result, batch |-> batch, receipt |-> receipt]

InitStore ==
    /\ ledger \in InitFiles
    /\ last = [op |-> "init", contract_id |-> None, milestone_id |-> None,
               raised |-> FALSE, passed |-> FALSE, pre |-> 0]
    /\ pc = Sequential
    /\ ship = NoShip

store_emit_receipt(t, data) ==
    /\ ledger' = WriteLine(ledger, Dumps(EmitReceipt(t, data, Now(ledger))))
    /\ last' = StoreCall("emit_receipt", None,
                         EmitReceipt(t, data, Now(ledger)), <<>>, NoKey)
    /\ UNCHANGED <<pc, ship>>

store_append_receipt(receipt) ==
    /\ ledger' = WriteLine(ledger, Dumps(receipt))
    /\ last' = StoreCall("append_receipt", None, NoKey, <<>>, receipt)
    /\ UNCHANGED <<pc, ship>>

store_add_to_ledger(receipt) ==
    /\ ledger' = WriteLine(ledger, Dumps(receipt))
    /\ last' = StoreCall("add_to_ledger", None,
                         IF "receipt_id" \in DOMAIN receipt
                         THEN receipt.receipt_id
                         ELSE Get(receipt, "payload_hash"),
                         <<>>, receipt)
    /\ UNCHANGED <<pc, ship>>

store_load_receipts(strict) ==
    /\ last' = StoreCall("load_receipts", LoadError(ledger, strict),
                         IF LoadError(ledger, strict) = None
                         THEN ParsedLines(ledger, 1) ELSE <<>>,
                         <<>>, NoKey)
    /\ UNCHANGED <<ledger, pc, ship>>

store_anchor_batch(receipts, has_path) ==
    /\ ledger' = IF has_path
                 THEN WriteLine(ledger, Dumps(AnchorBatch(receipts, Now(ledger))))
                 ELSE ledger
    /\ last' = StoreCall("anchor_batch", None,
                         AnchorBatch(receipts, Now(ledger)), receipts, NoKey)
    /\ UNCHANGED <<pc, ship>>

\* verify_anchor(receipt, anchor) on the anchor the last anchor_batch returned
store_verify_anchor(receipt) ==
    /\ last.op = "anchor_batch"
    /\ last' = [StoreCall("verify_anchor", None,
                          VerifyAnchor(receipt, last.result),
                          last.batch, receipt)
                   EXCEPT !.pre = last.pre]
    /\ UNCHANGED <<ledger, pc, ship>>

NextStore ==
    \/ \E t \in StoreTypes, data \in StoreData :
           Room(MaxStoreLines) /\ store_emit_receipt(t, data)
    \/ \E receipt \in GivenReceipts :
           Room(MaxStoreLines) /\ store_append_receipt(receipt)
    \/ \E receipt \in GivenReceipts :
           Room(MaxStoreLines) /\ store_add_to_ledger(receipt)
    \/ \E strict \in BOOLEAN : store_load_receipts(strict)
    \/ \E receipts \in Batches, has_path \in BOOLEAN :
           store_anchor_batch(receipts, has_path) /\ Within(MaxStoreLines)
    \/ \E receipt \in GivenReceipts : store_verify_anchor(receipt)

SpecStore == InitStore /\ [][NextStore]_vars

\* query_receipts(receipt_type): load_ledger, then the receipts of that type
QueryReceipts(L, t) ==
    SelectSeq(ParsedLines(L, 1),
              LAMBDA r : t = None \/ ("receipt_type" \in DOMAIN r
                                       /\ r.receipt_type = t))

store_query_receipts(t, strict) ==
    /\ last' = StoreCall("query_receipts", LoadError(ledger, strict),
                         IF LoadError(ledger, strict) = None
                         THEN QueryReceipts(ledger, t) ELSE <<>>,
                         <<>>, NoKey)
    /\ UNCHANGED <<ledger, pc, ship>>

\* the store as a restart finds it: the file may end in a partial line
InitCrash ==
    /\ ledger \in InitFiles \cup CrashFiles
    /\ last = [op |-> "init", contract_id |-> None, milestone_id |-> None,
               raised |-> FALSE, passed |-> FALSE, pre |-> 0]
    /\ pc = Sequential
    /\ ship = NoShip

NextCrash ==
    \/ \E t \in StoreTypes, data \in StoreData :
           Room(MaxCrashLines) /\ store_emit_receipt(t, data)
    \/ \E strict \in BOOLEAN : store_load_receipts(strict)
    \/ \E t \in StoreTypes \cup {None}, strict \in BOOLEAN :
           store_query_receipts(t, strict)

SpecCrash == InitCrash /\ [][NextCrash]_vars

\* merkle as a function of the batch it is given: the batches of up to
\* MaxBatch receipts
MerkleItems == {[receipt_type |-> "payment", amount |-> 1],
                [receipt_type |-> "payment", amount |-> 2],
                [receipt_type |-> "note", amount |-> 3]}

MerkleBatches == UNION {[1..n -> MerkleItems] : n \in 0..MaxBatch}

InitMerkle ==
    /\ ledger \in MerkleBatches
    /\ last = [op |-> "init", contract_id |-> None, milestone_id |-> None,
               raised |-> FALSE, passed |-> FALSE, pre |-> 0]
    /\ pc = Sequential
    /\ ship = NoShip

merkle_call ==
    /\ last' = StoreCall("merkle", None, merkle(ledger), ledger, NoKey)
    /\ UNCHANGED <<ledger, pc, ship>>

NextMerkle == merkle_call

SpecMerkle == InitMerkle /\ [][NextMerkle]_vars

\* the sanctioned flow of one contract, with check_variance at any point
NextFlow ==
    \/ \E c \in CIDs, a \in FlowAmounts, ms \in FlowMilestoneLists :
           Room(MaxFlowLedger) /\ register_contract(c, a, ms) /\ Within(MaxFlowLedger)
    \/ \E c \in CIDs, m \in MIDs, d \in Deliverables :
           Room(MaxFlowLedger) /\ submit_deliverable(c, m, d) /\ Within(MaxFlowLedger)
    \/ \E c \in CIDs, m \in MIDs, v \in VerifierArgs, p \in BOOLEAN :
           Room(MaxFlowLedger) /\ verify_milestone(c, m, v, p) /\ Within(MaxFlowLedger)
    \/ \E c \in CIDs, m \in MIDs :
           Room(MaxFlowLedger) /\ release_payment(c, m) /\ Within(MaxFlowLedger)
    \/ \E c \in CIDs :
           Room(MaxFlowLedger) /\ check_variance(c) /\ Within(MaxFlowLedger)

SpecFlow == Init /\ [][NextFlow]_vars

\* two contracts, verified and paid on request, audited across contracts
NextWaste ==
    \/ \E c \in WasteContracts, a \in FlowAmounts, ms \in AllMilestoneLists :
           Room(MaxWasteLedger) /\ register_contract(c, a, ms) /\ Within(MaxWasteLedger)
    \/ \E c \in WasteContracts, m \in AllMIDs, v \in VerifierArgs, p \in BOOLEAN :
           Room(MaxWasteLedger) /\ verify_milestone(c, m, v, p) /\ Within(MaxWasteLedger)
    \/ \E c \in WasteContracts, m \in AllMIDs, a \in WasteRequests :
           Room(MaxWasteLedger) /\ request_payment(c, m, a) /\ Within(MaxWasteLedger)
    \/ Room(MaxWasteLedger) /\ reconcile_all /\ Within(MaxWasteLedger)
    \/ Room(MaxWasteLedger) /\ get_waste_summary /\ Within(MaxWasteLedger)

SpecWaste == Init /\ [][NextWaste]_vars

\* one contract whose first milestone is delivered, verified or disputed
\* and paid on request, and reconciled at any point
NextReconcile ==
    \/ \E c \in CIDs, a \in FlowAmounts, ms \in AllMilestoneLists :
           Room(MaxReconcileLedger) /\ register_contract(c, a, ms)
               /\ Within(MaxReconcileLedger)
    \/ \E c \in CIDs, m \in AllMIDs, d \in Deliverables :
           Room(MaxReconcileLedger) /\ submit_deliverable(c, m, d)
               /\ Within(MaxReconcileLedger)
    \/ \E c \in CIDs, m \in AllMIDs, v \in VerifierArgs, p \in BOOLEAN :
           Room(MaxReconcileLedger) /\ verify_milestone(c, m, v, p)
               /\ Within(MaxReconcileLedger)
    \/ \E c \in CIDs, m \in AllMIDs, a \in WasteRequests :
           Room(MaxReconcileLedger) /\ request_payment(c, m, a)
               /\ Within(MaxReconcileLedger)
    \/ \E c \in CIDs :
           Room(MaxReconcileLedger) /\ reconcile_contract(c)
               /\ Within(MaxReconcileLedger)

SpecReconcile == Init /\ [][NextReconcile]_vars

\* the operations that write contract and milestone receipts
NextFold ==
    \/ \E c \in CIDs, a \in RegAmounts, ms \in RegMilestoneLists :
           Room(MaxFoldLedger) /\ register_contract(c, a, ms) /\ Within(MaxFoldLedger)
    \/ \E c \in CIDs, u \in UpdateChoices :
           Room(MaxFoldLedger) /\ update_contract(c, u) /\ Within(MaxFoldLedger)
    \/ \E c \in CIDs, m \in MIDs, dh \in DeliverableHashes :
           Room(MaxFoldLedger) /\ submit_milestone(c, m, dh) /\ Within(MaxFoldLedger)
    \/ \E c \in CIDs, m \in MIDs, d \in Deliverables :
           Room(MaxFoldLedger) /\ submit_deliverable(c, m, d) /\ Within(MaxFoldLedger)
    \/ \E c \in CIDs, m \in MIDs, v \in VerifierArgs, p \in BOOLEAN :
           Room(MaxFoldLedger) /\ verify_milestone(c, m, v, p) /\ Within(MaxFoldLedger)
    \/ \E c \in CIDs, m \in MIDs :
           Room(MaxFoldLedger) /\ release_payment(c, m) /\ Within(MaxFoldLedger)

SpecFold == Init /\ [][NextFold]_vars

\* =================================================================
\* Properties.  Pre is the ledger as it was when the last operation
\* was called, Appended the receipts that operation wrote.
\* =================================================================
Pre == SubSeq(ledger, 1, last.pre)

Appended == SubSeq(ledger, last.pre + 1, Len(ledger))

StatusOf(L, c, m) ==
    LET ms == get_contract_milestones(L, c)
    IN IF \E i \in 1..Len(ms) : ms[i].id = m
       THEN ms[CHOOSE i \in 1..Len(ms) : ms[i].id = m].status
       ELSE "absent"

IsMilestoneReceipt(r, c, m, st) ==
    /\ r.receipt_type = "milestone"
    /\ r.contract_id = c
    /\ r.milestone_id = m
    /\ r.status = st

IsPaymentReceipt(r, c, m) ==
    /\ r.receipt_type = "payment"
    /\ r.contract_id = c
    /\ r.milestone_id = m

OneViolationAnomaly(rs) ==
    /\ Len(rs) = 1
    /\ rs[1].receipt_type = "anomaly"
    /\ rs[1].classification = "violation"

C2_NoPaymentBeforeVerification ==
    ( /\ last.op = "release_payment"
      /\ StatusOf(Pre, last.contract_id, last.milestone_id)
             \in {"PENDING", "DELIVERED", "DISPUTED"} )
    => /\ last.raised
       /\ OneViolationAnomaly(Appended)
       /\ Len(query_payments(ledger, last.contract_id, last.milestone_id))
              = Len(query_payments(Pre, last.contract_id, last.milestone_id))

C2_Witness ==
    /\ last.op = "release_payment"
    /\ last.raised
    /\ StatusOf(Pre, last.contract_id, last.milestone_id) = "DELIVERED"
    /\ Appended[1].metric = "unverified_milestone"

\* C3: every payment receipt is preceded in append order by a milestone
\* receipt with status VERIFIED for the same (contract_id, milestone_id).
C3_PaymentFollowsVerification ==
    \A i \in 1..Len(ledger) :
        ledger[i].receipt_type = "payment"
        => \E j \in 1..(i - 1) :
               IsMilestoneReceipt(ledger[j], ledger[i].contract_id,
                                  ledger[i].milestone_id, "VERIFIED")

\* C4: a milestone receipt with status PAID is written only by a successful
\* release_payment, directly after the payment receipt that call wrote for
\* the same (contract_id, milestone_id); verify_milestone, submit_deliverable
\* and submit_milestone never write one.
C4_PaidOnlyByReleasePayment ==
    /\ \A i \in 1..Len(ledger) :
           (ledger[i].receipt_type = "milestone" /\ ledger[i].status = "PAID")
           => /\ i > 1
              /\ IsPaymentReceipt(ledger[i - 1], ledger[i].contract_id,
                                  ledger[i].milestone_id)
    /\ (\E i \in 1..Len(Appended) :
            Appended[i].receipt_type = "milestone" /\ Appended[i].status = "PAID")
       => /\ last.op = "release_payment"
          /\ ~last.raised
          /\ Len(Appended) = 2
          /\ IsPaymentReceipt(Appended[1], last.contract_id, last.milestone_id)
          /\ IsMilestoneReceipt(Appended[2], last.contract_id,
                                last.milestone_id, "PAID")

C4_Witness ==
    /\ last.op = "release_payment"
    /\ ~last.raised
    /\ Appended[2].receipt_type = "milestone"
    /\ Appended[2].status = "PAID"

\* C5: verify_milestone writes a VERIFIED or DISPUTED milestone receipt only
\* when the folded status of the milestone just before the call is
\* DELIVERED (no transition skips a state).
C5_VerifyOnlyFromDelivered ==
    ( /\ last.op = "verify_milestone"
      /\ \E i \in 1..Len(Appended) :
             /\ Appended[i].receipt_type = "milestone"
             /\ Appended[i].status \in {"VERIFIED", "DISPUTED"} )
    => StatusOf(Pre, last.contract_id, last.milestone_id) = "DELIVERED"

\* C6: the folded status of a milestone never moves back along
\* PENDING -> DELIVERED -> VERIFIED | DISPUTED -> PAID, and a PAID milestone
\* stays PAID after every later operation.
Rank(st) ==
    CASE st = "PENDING" -> 0
      [] st = "DELIVERED" -> 1
      [] st \in {"VERIFIED", "DISPUTED"} -> 2
      [] st = "PAID" -> 3
      [] OTHER -> -1

C6_StatusOnlyMovesForward ==
    \A c \in CIDs, m \in MIDs :
        ( /\ Rank(StatusOf(Pre, c, m)) >= 0
          /\ Rank(StatusOf(ledger, c, m)) >= 0 )
        => Rank(StatusOf(Pre, c, m)) <= Rank(StatusOf(ledger, c, m))

\* C7: once the folded status of a milestone is DISPUTED, no verify_milestone
\* call changes it to VERIFIED.
C7_DisputedIsTerminal ==
    ( /\ last.op = "verify_milestone"
      /\ StatusOf(Pre, last.contract_id, last.milestone_id) = "DISPUTED" )
    => StatusOf(ledger, last.contract_id, last.milestone_id) # "VERIFIED"

\* C8: verify_milestone on a milestone whose folded status is VERIFIED or
\* PAID raises the already_verified stoprule whatever passed is, appends only
\* that anomaly, and leaves the folded milestone (status, verifier_id,
\* verification_ts) as it was.
C8_ReverifyRejected ==
    ( /\ last.op = "verify_milestone"
      /\ StatusOf(Pre, last.contract_id, last.milestone_id) \in {"VERIFIED", "PAID"} )
    => /\ last.raised
       /\ OneViolationAnomaly(Appended)
       /\ Appended[1].metric = "already_verified"
       /\ get_milestone(ledger, last.contract_id, last.milestone_id)
              = get_milestone(Pre, last.contract_id, last.milestone_id)

C8_Witness ==
    /\ last.op = "verify_milestone"
    /\ last.raised
    /\ ~last.passed
    /\ StatusOf(Pre, last.contract_id, last.milestone_id) = "PAID"
    /\ get_milestone(ledger, last.contract_id, last.milestone_id).verifier_id = "V1"

\* C9: release_payment on a VERIFIED milestone without a payment receipt
\* succeeds and appends exactly two receipts: first a payment receipt with
\* the amount the contract gives the milestone, then a milestone receipt
\* with status PAID; afterwards the milestone folds to PAID and total_paid
\* of the contract has grown by that amount.
ContractAmount(L, c, m) ==
    LET ms == get_contract(L, c).milestones
        i == CHOOSE k \in 1..Len(ms) :
                 ms[k].id = m /\ \A j \in (k + 1)..Len(ms) : ms[j].id # m
    IN ms[i].amount

C9_SuccessfulRelease ==
    ( /\ last.op = "release_payment"
      /\ StatusOf(Pre, last.contract_id, last.milestone_id) = "VERIFIED"
      /\ query_payments(Pre, last.contract_id, last.milestone_id) = <<>> )
    => /\ ~last.raised
       /\ Len(Appended) = 2
       /\ IsPaymentReceipt(Appended[1], last.contract_id, last.milestone_id)
       /\ Appended[1].amount = ContractAmount(Pre, last.contract_id, last.milestone_id)
       /\ IsMilestoneReceipt(Appended[2], last.contract_id, last.milestone_id, "PAID")
       /\ StatusOf(ledger, last.contract_id, last.milestone_id) = "PAID"
       /\ total_paid(ledger, last.contract_id)
              = total_paid(Pre, last.contract_id)
                + ContractAmount(Pre, last.contract_id, last.milestone_id)

C9_Witness ==
    /\ last.op = "release_payment"
    /\ ~last.raised
    /\ StatusOf(Pre, last.contract_id, last.milestone_id) = "VERIFIED"
    /\ Appended[1].amount > 0
    /\ total_paid(ledger, last.contract_id) = Appended[1].amount

\* C10: a call of register_contract, submit_deliverable, verify_milestone or
\* release_payment whose precondition fails raises StopRule after appending
\* exactly one anomaly receipt with classification violation, and appends
\* nothing else.
PreconditionFails ==
    LET c == last.contract_id
        m == last.milestone_id
    IN \/ last.op = "register_contract" /\ HasContract(Pre, c)
       \/ last.op = "submit_deliverable" /\ ~HasMilestone(Pre, c, m)
       \/ /\ last.op = "verify_milestone"
          /\ StatusOf(Pre, c, m) \in {"absent", "VERIFIED", "PAID"}
       \/ /\ last.op = "release_payment"
          /\ \/ StatusOf(Pre, c, m) \notin {"VERIFIED", "verified"}
             \/ query_payments(Pre, c, m) # <<>>

C10_StopruleEmitsOneAnomaly ==
    /\ ( /\ last.op \in {"register_contract", "submit_deliverable",
                         "verify_milestone", "release_payment"}
         /\ last.raised )
       => /\ OneViolationAnomaly(Appended)
          /\ Appended[1].contract_id = last.contract_id
    /\ PreconditionFails => last.raised

C10_Witness ==
    /\ last.op = "register_contract"
    /\ last.raised
    /\ ~HasContract(Pre, last.contract_id)
    /\ Appended[1].metric = "invalid_amount"
    /\ ~HasContract(ledger, last.contract_id)

\* C12: register_contract with amount <= 0, or with milestones whose amounts
\* do not sum to amount within the tolerance, on an id that has no contract
\* yet, appends exactly the invalid_amount anomaly and no contract receipt,
\* so get_contract for that id still finds nothing.
RejectedInput(a, ms) == a <= 0 \/ Abs(SumAmounts(ms, 1) - a) > Tolerance

C12_InvalidAmountRejected ==
    [][\A c \in CIDs, a \in RegAmounts, ms \in RegMilestoneLists :
           ( /\ last'.op = "register_contract"
             /\ RejectedInput(a, ms)
             /\ ~HasContract(ledger, c)
             /\ register_contract(c, a, ms) )
           => /\ ledger' = Append(ledger, Anomaly("invalid_amount", c, None, "reject"))
              /\ last'.raised
              /\ ~HasContract(ledger', c)]_vars

C12_Witness ==
    /\ last.op = "register_contract"
    /\ last.raised
    /\ Len(Appended) = 1
    /\ Appended[1].metric = "invalid_amount"
    /\ Appended[1].action = "reject"
    /\ query_receipts(ledger, "contract", last.contract_id) = <<>>

\* C13: register_contract with a contract_id that already has a contract
\* receipt raises the duplicate_contract stoprule, appends only that anomaly,
\* and get_contract and the folded milestones of the contract are as before.
C13_DuplicateContractRejected ==
    ( /\ last.op = "register_contract"
      /\ HasContract(Pre, last.contract_id) )
    => /\ last.raised
       /\ OneViolationAnomaly(Appended)
       /\ Appended[1].metric = "duplicate_contract"
       /\ Len(query_receipts(ledger, "contract", last.contract_id))
              = Len(query_receipts(Pre, "contract", last.contract_id))
       /\ get_contract(ledger, last.contract_id) = get_contract(Pre, last.contract_id)
       /\ get_contract_milestones(ledger, last.contract_id)
              = get_contract_milestones(Pre, last.contract_id)

C13_Witness ==
    /\ last.op = "register_contract"
    /\ last.raised
    /\ HasContract(Pre, last.contract_id)
    /\ get_contract_milestones(ledger, last.contract_id) # <<>>

\* C14: for every registered contract the milestone amounts of its current
\* contract receipt sum to its total amount within the tolerance.
C14_MilestoneSumInvariant ==
    \A c \in CIDs :
        HasContract(ledger, c)
        => Abs(SumAmounts(get_contract(ledger, c).milestones, 1)
               - get_contract(ledger, c).amount_fixed) <= Tolerance

\* C15: every milestone receipt and every payment receipt names a contract
\* that has a contract receipt and a milestone id that is in the current
\* milestone list of that contract.
InCurrentList(L, c, m) ==
    /\ HasContract(L, c)
    /\ \E i \in 1..Len(get_contract(L, c).milestones) :
           get_contract(L, c).milestones[i].id = m

C15_ReceiptsHaveOwningMilestone ==
    \A i \in 1..Len(ledger) :
        ledger[i].receipt_type \in {"milestone", "payment"}
        => InCurrentList(ledger, ledger[i].contract_id, ledger[i].milestone_id)

\* C16: a contract receipt written by register_contract never holds two
\* milestones with the same id, and get_contract_milestones returns one
\* entry per milestone passed to register_contract.
C16_UniqueMilestoneIds ==
    (last.op = "register_contract" /\ ~last.raised)
    => LET ms == get_contract(ledger, last.contract_id).milestones
       IN /\ \A i, j \in 1..Len(ms) : ms[i].id = ms[j].id => i = j
          /\ Len(get_contract_milestones(ledger, last.contract_id)) = Len(ms)

\* C11: every operation of the contract, milestone, payment, reconcile
\* and anchor modules, returning or raising, leaves the ledger it found as
\* a prefix of the ledger it leaves: receipts are only ever appended, and
\* the anomaly of a stoprule stays.
IsPrefix(a, b) == Len(a) <= Len(b) /\ SubSeq(b, 1, Len(a)) = a

C11_AppendOnly == [][IsPrefix(ledger, ledger')]_vars

C11_Witness ==
    /\ last.raised
    /\ last.pre >= 2
    /\ Len(ledger) = last.pre + 1
    /\ ledger[Len(ledger)].receipt_type = "anomaly"
    /\ ledger[1].receipt_type = "contract"

\* C17: under the sanctioned operations no payment receipt is for a
\* milestone whose folded status is outside VERIFIED and PAID, so
\* reconcile_contract never reports UNVERIFIED_PAYMENT.
C17_NoUnverifiedPayment ==
    \A c \in CIDs :
        /\ ReconcileStatus(ledger, c) # "UNVERIFIED_PAYMENT"
        /\ \A i \in 1..Len(ledger) :
               (ledger[i].receipt_type = "payment" /\ ledger[i].contract_id = c)
               => StatusOf(ledger, c, ledger[i].milestone_id)
                      \in {"VERIFIED", "PAID"}

\* C18: for the contract of 1,000,000 with two equal milestones, one of
\* them verified and 600,000 paid, check_variance reports expected spend
\* 500,000, actual spend 600,000 and variance 0.20 in its variance
\* receipt, and reconcile_contract reports OVERPAID.
ExampleCase(L, c) ==
    /\ HasContract(L, c)
    /\ get_contract(L, c).amount_fixed = 100000000
    /\ Len(get_contract_milestones(L, c)) = 2
    /\ StatusOf(L, c, "M1") = "VERIFIED"
    /\ StatusOf(L, c, "M2") = "PENDING"
    /\ total_paid(L, c) = 60000000

TrueVariance(L, c) ==
    <<total_paid(L, c) * ExpectedSpend(L, c)[2] - ExpectedSpend(L, c)[1],
      ExpectedSpend(L, c)[1]>>

C19_ThresholdReceipts ==
    (/\ last.op = "check_variance"
     /\ HasContract(Pre, last.contract_id)
     /\ ExpectedSpend(Pre, last.contract_id)[1] > 0)
    => LET v == TrueVariance(Pre, last.contract_id)
       IN IF 20 * Abs(v[1]) > v[2]
          THEN /\ Len(Appended) = 1
               /\ Appended[1].receipt_type = "variance"
               /\ Appended[1].severity
                      = IF 20 * Abs(v[1]) > 3 * v[2] THEN "critical"
                                                      ELSE "warning"
          ELSE Appended = <<>>

C19_ZeroExpectedReported ==
    (/\ last.op = "check_variance"
     /\ HasContract(Pre, last.contract_id)
     /\ ExpectedSpend(Pre, last.contract_id)[1] = 0
     /\ total_paid(Pre, last.contract_id) > 0)
    => Appended # <<>>

C19_VarianceReceipt == C19_ThresholdReceipts /\ C19_ZeroExpectedReported

\* C20: once every milestone of every registered contract has been
\* delivered, verified and paid, every contract reconciles ON_TRACK, no
\* waste is identified, and the variance of a contract is (sum of its
\* milestone amounts - amount) / amount: 0 when the milestone amounts sum
\* exactly to the contract amount.
HasReceipt(L, c, m, t, st) ==
    \E i \in 1..Len(L) : /\ L[i].receipt_type = t
                         /\ L[i].contract_id = c
                         /\ L[i].milestone_id = m
                         /\ L[i].status = st

AllSettled(L) ==
    /\ Registered(L) # <<>>
    /\ \A k \in 1..Len(Registered(L)) :
           LET c == Registered(L)[k]
               ms == get_contract(L, c).milestones
           IN /\ Len(ms) = 2
              /\ \A i \in 1..Len(ms) :
                     /\ HasReceipt(L, c, ms[i].id, "milestone", "DELIVERED")
                     /\ HasReceipt(L, c, ms[i].id, "milestone", "VERIFIED")
                     /\ query_payments(L, c, ms[i].id) # <<>>

MilestoneSum(L, c) == SumAmounts(get_contract(L, c).milestones, 1)

C20_SettledOnTrack ==
    AllSettled(ledger)
    => /\ waste_identified(ledger) = 0
       /\ \A k \in 1..Len(Registered(ledger)) :
              LET c == Registered(ledger)[k]
                  v == Variance(ledger, c)
                  t == get_contract(ledger, c).amount_fixed
              IN /\ ReconcileStatus(ledger, c) = "ON_TRACK"
                 /\ v[1] * t = (MilestoneSum(ledger, c) - t) * v[2]
                 /\ (MilestoneSum(ledger, c) = t => v[1] = 0)

C20_Witness ==
    /\ AllSettled(Pre)
    /\ last.op = "get_waste_summary"
    /\ Len(Registered(ledger)) = NumContracts
    /\ \E k \in 1..NumContracts :
           MilestoneSum(ledger, Registered(ledger)[k])
               = get_contract(ledger, Registered(ledger)[k]).amount_fixed

\* C20 as stated: variance 0 for every settled contract
C20_SettledVarianceZero ==
    AllSettled(ledger)
    => /\ waste_identified(ledger) = 0
       /\ \A k \in 1..Len(Registered(ledger)) :
              /\ ReconcileStatus(ledger, Registered(ledger)[k]) = "ON_TRACK"
              /\ Variance(ledger, Registered(ledger)[k])[1] = 0

\* ---------------------------------------------------------------- C26
\* C26 (as stated): advance_phase returns only for the immediate successor
\* of the current phase; for every other target, in every current phase,
\* DELIVERY included, it raises StopRuleException and leaves the ship as it
\* was.
IsSuccessor(sh, phase) ==
    IsPhase(phase) /\ PhaseIndex(phase) = sh.phase_index + 1

C26_NonSuccessorStopRule ==
    last.op = "advance_phase" =>
        IF IsSuccessor(last.before, last.phase)
        THEN last.exc = None
        ELSE /\ last.exc = "StopRuleException"
             /\ ship.current_phase = last.before.current_phase
             /\ ship.phase_index = last.before.phase_index
             /\ ship.milestones = last.before.milestones
             /\ ship.receipts = last.before.receipts

\* ---------------------------------------------------------------- C27
\* C27: complete_ship, called on a ship in any phase, ends with the ship in
\* DELIVERY, having advanced through each remaining phase once and in
\* order, and records one delivery receipt, which is also stored with the
\* final overrun on the ship.
C27_CompleteShip ==
    last.op = "complete_ship" =>
        LET before == last.before
            n == Len(before.milestones)
            r == Len(before.receipts)
            k == (Len(LIFECYCLE_PHASES) - 1) - before.phase_index
        IN /\ ship.current_phase = "DELIVERY"
           /\ ship.phase_index = Len(LIFECYCLE_PHASES) - 1
           /\ Len(ship.milestones) = n + k
           /\ SubSeq(ship.milestones, 1, n) = before.milestones
           /\ \A j \in 1..k :
                  /\ ship.milestones[n + j].phase =
                         LIFECYCLE_PHASES[before.phase_index + 1 + j]
                  /\ ship.receipts[r + j] = ship.milestones[n + j]
           /\ Len(ship.receipts) = r + k + 1
           /\ SubSeq(ship.receipts, 1, r) = before.receipts
           /\ ship.receipts[r + k + 1].receipt_type = "delivery"
           /\ ship.delivery_receipt = <<ship.receipts[r + k + 1]>>
           /\ ship.final_overrun_pct =
                  <<ship.receipts[r + k + 1].cost_overrun_pct>>

C27_Witness ==
    /\ last.op = "complete_ship"
    /\ last.before.current_phase = "BLOCK_ASSEMBLY"
    /\ ship.current_phase = "DELIVERY"
    /\ Len(ship.delivery_receipt) = 1

\* ---------------------------------------------------------------- C28
\* C28: when calls of release_payment take turns, no milestone ever has two
\* payment receipts; when two calls on the same VERIFIED milestone overlap,
\* both can pass the prior-payment check and two payment receipts are
\* written.
PaymentCount(L, c, m) == Len(query_payments(L, c, m))

C28_SerializedSinglePayment ==
    pc.serialized =>
        \A c \in CIDs, m \in AllMIDs : PaymentCount(ledger, c, m) <= 1

C28_Witness ==
    /\ ~pc.serialized
    /\ \E c \in CIDs, m \in AllMIDs :
           /\ PaymentCount(ledger, c, m) = 2
           /\ \E i \in 1..Len(ledger) :
                  /\ ledger[i].receipt_type = "milestone"
                  /\ ledger[i].contract_id = c
                  /\ ledger[i].milestone_id = m
                  /\ ledger[i].status = "VERIFIED"
                  /\ \A j \in 1..Len(ledger) :
                         ledger[j].receipt_type = "payment" => j > i

\* ---------------------------------------------------------------- C29
\* The milestone receipts of (c, m), by position in the ledger, and the
\* last of a non-empty set of positions.
MilestoneReceiptsOf(L, c, m) ==
    {j \in 1..Len(L) : /\ L[j].receipt_type = "milestone"
                       /\ L[j].contract_id = c
                       /\ L[j].milestone_id = m}

Latest(S) == CHOOSE j \in S : \A k \in S : k <= j

C30_RegisteredPending ==
    (last.op = "register_contract" /\ ~last.raised) =>
        /\ Len(Appended) = 1
        /\ Appended[1].receipt_type = "contract"
        /\ Appended[1].contract_id = last.contract_id
        /\ Appended[1].milestones # <<>>
        /\ \A i \in 1..Len(Appended[1].milestones) :
               Appended[1].milestones[i].status = "PENDING"
        /\ LET ms == get_contract_milestones(ledger, last.contract_id)
           IN /\ ms # <<>>
              /\ \A i \in 1..Len(ms) : ms[i].status = "PENDING"

\* the registered list is the one supplied with statuses PAID and VERIFIED
C30_Witness ==
    /\ last.op = "register_contract"
    /\ ~last.raised
    /\ Len(Appended) = 1
    /\ Len(Appended[1].milestones) = 2
    /\ Appended[1].milestones[2].amount = 4
    /\ get_contract_milestones(ledger, last.contract_id)[1].status = "PENDING"

\* ---------------------------------------------------------------- C22
\* C22 (as stated): load_receipts never fails on malformed content; it
\* returns the well-formed JSON lines of the file, in file order, skipping
\* every other line.
C22_LoadNeverFails ==
    last.op = "load_receipts" =>
        /\ ~last.raised
        /\ last.result = ParsedLines(ledger, 1)

\* ---------------------------------------------------------------- C23
\* C23 (as stated): every receipt written to the store carries a
\* payload_hash equal to the dual hash of its own fields in sorted-key
\* order, whichever of emit_receipt, append_receipt and add_to_ledger wrote
\* it.  The fields hashed are taken to be those the caller supplied: all
\* but receipt_type, ts and payload_hash, with or without tenant_id.
Restrict(d, keys) == [k \in DOMAIN d \ keys |-> d[k]]

C23_PayloadHashOfFields ==
    \A i \in 1..Len(ledger) :
        ledger[i].kind = "json" =>
            /\ "payload_hash" \in DOMAIN ledger[i].value
            /\ ledger[i].value.payload_hash \in
                   { dual_hash(Dumps(Restrict(ledger[i].value,
                         {"receipt_type", "ts", "payload_hash"}))),
                     dual_hash(Dumps(Restrict(ledger[i].value,
                         {"receipt_type", "ts", "payload_hash", "tenant_id"}))) }

\* ---------------------------------------------------------------- C24
\* C24 (as stated): verify_anchor(r, anchor_batch(batch)) is true when r is
\* a member of the batch and false when it is not.
C24_MerkleRoundTrip ==
    last.op = "verify_anchor" =>
        (last.result <=> \E i \in 1..Len(last.batch) : last.batch[i] = last.receipt)

\* ---------------------------------------------------------------- C25
\* C25 (as stated): each call of anchor_batch appends one anchor receipt,
\* carrying the Merkle root and the size of the batch, to the store, and
\* leaves the earlier lines of the store as they were.
C25_OneAnchorAppended ==
    last.op = "anchor_batch" =>
        /\ Len(ledger) = last.pre + 1
        /\ ledger[Len(ledger)] = Dumps(last.result)
        /\ last.result.receipt_type = "anchor"
        /\ last.result.merkle_root = merkle(last.batch)
        /\ last.result.batch_size = Len(last.batch)

\* ---------------------------------------------------------------- C31
\* The report of reconcile_contract and the variance of check_variance
\* on a ledger, and the ledger once the caller p, which has written its
\* payment receipt, has also written its PAID receipt.
Report(L, c) ==
    [status |-> ReconcileStatus(L, c), amount_paid |-> total_paid(L, c),
     amount_verified |-> amount_verified(L, c), variance |-> Variance(L, c)]

Completed(L, p) ==
    emit_milestone_receipt(L, pc.proc[p].contract_id, pc.proc[p].milestone_id,
                           "PAID", pc.proc[p].milestone[1].deliverable_hash,
                           pc.proc[p].milestone[1].verifier_id,
                           pc.proc[p].milestone[1].verification_ts)

Written(L0, L1) == SubSeq(L1, Len(L0) + 1, Len(L1))

\* C31: a reconcile_contract or check_variance that reads the ledger
\* between the two appends of a release_payment reports the same status,
\* amounts and variance, and writes the same receipts, as one that reads it
\* after the PAID receipt.
C31_ConsistentSnapshot ==
    [][\A p \in Procs, c \in CIDs :
           (At(p, "emit_milestone") /\ pc.proc[p].contract_id = c) =>
               /\ reconcile_contract(c) =>
                      /\ Report(ledger, c) = Report(Completed(ledger, p), c)
                      /\ Written(ledger, ledger') =
                             Written(Completed(ledger, p),
                                     ReconcileContract(Completed(ledger, p), c))
               /\ check_variance(c) =>
                      /\ Report(ledger, c) = Report(Completed(ledger, p), c)
                      /\ Written(ledger, ledger') =
                             Written(Completed(ledger, p),
                                     CheckVariance(Completed(ledger, p), c))]_vars

C31_Witness ==
    \E p \in Procs :
        /\ last.op = "reconcile_contract"
        /\ At(p, "emit_milestone")
        /\ pc.proc[p].contract_id = last.contract_id
        /\ last.pre >= 1
        /\ ledger[last.pre].receipt_type = "payment"
        /\ ledger[last.pre].milestone_id = pc.proc[p].milestone_id
        /\ PaymentCount(ledger, last.contract_id, pc.proc[p].milestone_id) = 1
        /\ ReconcileStatus(Pre, last.contract_id) = "ON_TRACK"

\* ---------------------------------------------------------------- C34
\* C34 (as stated): in every state reached through register_contract,
\* submit_deliverable, verify_milestone and release_payment, total_paid of
\* a contract is at most the contract's amount, so total_outstanding is
\* never negative.
total_outstanding(L, c) ==
    IF ~HasContract(L, c) THEN 0
    ELSE get_contract(L, c).amount_fixed - total_paid(L, c)

C34_PaidWithinTotal ==
    \A c \in CIDs :
        HasContract(ledger, c) =>
            /\ total_paid(ledger, c) <= get_contract(ledger, c).amount_fixed
            /\ total_outstanding(ledger, c) >= 0

\* ---------------------------------------------------------------- C35
\* The receipts of contract c in L are those of the sanctioned flow: one
\* contract receipt, and for each milestone a beginning of DELIVERED,
\* VERIFIED, PAID, with one payment receipt per PAID and none without.
StatusesOf(L, c, m) ==
    LET rs == SelectSeq(L, LAMBDA r : /\ r.receipt_type = "milestone"
                                      /\ r.contract_id = c
                                      /\ r.milestone_id = m)
    IN [i \in 1..Len(rs) |-> rs[i].status]

SanctionedFlow(L, c) ==
    /\ Len(query_receipts(L, "contract", c)) = 1
    /\ \A i \in 1..Len(L) : L[i].receipt_type # "anomaly"
    /\ \A m \in MIDs :
           /\ StatusesOf(L, c, m) \in
                  {<<>>, <<"DELIVERED">>, <<"DELIVERED", "VERIFIED">>,
                   <<"DELIVERED", "VERIFIED", "PAID">>}
           /\ Len(query_payments(L, c, m)) =
                  (IF Len(StatusesOf(L, c, m)) = 3 THEN 1 ELSE 0)

\* C35 (as stated): while a contract is driven through the sanctioned flow
\* only, check_variance appends no variance receipt, at any intermediate
\* point.
C35_NoVarianceInFlow ==
    (/\ last.op = "check_variance"
     /\ SanctionedFlow(SelectSeq(Pre, LAMBDA r : r.receipt_type # "variance"),
                       last.contract_id)) =>
        Appended = <<>>

\* ---------------------------------------------------------------- C36
\* C36 (as stated): get_waste_summary reports waste_identified above 0
\* whenever some contract has been paid more than was verified on it;
\* verified and unpaid amounts of another contract never cancel it.
C36_WasteNotCancelled ==
    last.op = "get_waste_summary" =>
        ((\E c \in WasteContracts :
              /\ HasContract(Pre, c)
              /\ total_paid(Pre, c) > amount_verified(Pre, c))
         => waste_identified(Pre) > 0)

\* ---------------------------------------------------------------- C33
\* C33: check_variance, reconcile_contract, reconcile_all and
\* get_waste_summary append only anomaly and variance receipts; the folded
\* milestones and total_paid of every contract are the same before and
\* after the call, and a repeated call reports the same.
AuditOps ==
    {"check_variance", "reconcile_contract", "reconcile_all", "get_waste_summary"}

C33_AuditReadsOnly ==
    last.op \in AuditOps =>
        /\ \A i \in 1..Len(Appended) :
               Appended[i].receipt_type \in {"anomaly", "variance"}
        /\ \A c \in CIDs :
               /\ get_contract_milestones(ledger, c) = get_contract_milestones(Pre, c)
               /\ total_paid(ledger, c) = total_paid(Pre, c)
               /\ HasContract(ledger, c) = HasContract(Pre, c)
               /\ HasContract(Pre, c) =>
                      /\ Report(ledger, c) = Report(Pre, c)
                      /\ Written(ledger, ReconcileContract(ledger, c))
                             = Written(Pre, ReconcileContract(Pre, c))
                      /\ Written(ledger, CheckVariance(ledger, c))
                             = Written(Pre, CheckVariance(Pre, c))
        /\ waste_identified(ledger) = waste_identified(Pre)

C33_Witness ==
    /\ last.op = "reconcile_contract"
    /\ Len(Appended) = 1
    /\ Appended[1].receipt_type = "anomaly"
    /\ Appended[1].metric = "overpayment"
    /\ total_paid(Pre, last.contract_id) > amount_verified(Pre, last.contract_id)

\* ---------------------------------------------------------------- C37
\* The payments of contract c, by position in L, whose milestone is in the
\* folded list with a status that is not VERIFIED, PAID or verified.
OffendingPayments(L, c) ==
    {i \in 1..Len(L) :
        /\ L[i].receipt_type = "payment"
        /\ L[i].contract_id = c
        /\ StatusOf(L, c, L[i].milestone_id)
               \notin {"absent", "VERIFIED", "PAID", "verified"}}

AnomaliesOf(rs, metric) ==
    {i \in 1..Len(rs) : rs[i].receipt_type = "anomaly" /\ rs[i].metric = metric}

\* C37: reconcile_contract reports DISPUTED over UNVERIFIED_PAYMENT over
\* OVERPAID over ON_TRACK, and whatever the status it appends one
\* overpayment anomaly when amount_paid exceeds amount_verified and one
\* unverified_payment anomaly for each offending payment.
C37_StatusPrecedence ==
    (last.op = "reconcile_contract" /\ HasContract(Pre, last.contract_id)) =>
        LET c == last.contract_id
            disputed == \E m \in MIDs : StatusOf(Pre, c, m) \in {"DISPUTED", "rejected"}
            unverified == OffendingPayments(Pre, c) # {}
            overpaid == total_paid(Pre, c) > amount_verified(Pre, c)
        IN /\ ReconcileStatus(Pre, c) =
                  CASE disputed -> "DISPUTED"
                    [] ~disputed /\ unverified -> "UNVERIFIED_PAYMENT"
                    [] ~disputed /\ ~unverified /\ overpaid -> "OVERPAID"
                    [] OTHER -> "ON_TRACK"
           /\ Cardinality(AnomaliesOf(Appended, "overpayment"))
                  = (IF overpaid THEN 1 ELSE 0)
           /\ Cardinality(AnomaliesOf(Appended, "unverified_payment"))
                  = Cardinality(OffendingPayments(Pre, c))
           /\ Len(Appended) = (IF overpaid THEN 1 ELSE 0)
                                  + Cardinality(OffendingPayments(Pre, c))

\* the three findings at once: the status is DISPUTED and both anomalies
\* are appended
C37_Witness ==
    /\ last.op = "reconcile_contract"
    /\ HasContract(Pre, last.contract_id)
    /\ ReconcileStatus(Pre, last.contract_id) = "DISPUTED"
    /\ OffendingPayments(Pre, last.contract_id) # {}
    /\ total_paid(Pre, last.contract_id) > amount_verified(Pre, last.contract_id)
    /\ Len(Appended) = 2

\* ---------------------------------------------------------------- C32
\* the receipt the last emit_receipt returned is among the receipts rs
Returned(rs) == \E i \in 1..Len(rs) : rs[i] = last.result

\* C32: the receipt emit_receipt appended is returned by the load_receipts
\* and by the query_receipts of its type that follow, also when the file
\* ended in a partial line before the append.
C32_AppendedReceiptLoaded ==
    [][\A strict \in BOOLEAN :
          /\ (last.op = "emit_receipt" /\ store_load_receipts(strict)
                  /\ last'.exc = None)
                 => Returned(last'.result)
          /\ (last.op = "emit_receipt"
                  /\ store_query_receipts(last.result.receipt_type, strict)
                  /\ last'.exc = None)
                 => Returned(last'.result)]_vars

\* ---------------------------------------------------------------- C38
Leaf(item) == dual_hash(Dumps(item))

Node(h1, h2) == dual_hash(Concat(h1, h2))

Pow2(k) == IF k = 0 THEN 1 ELSE IF k = 1 THEN 2 ELSE IF k = 2 THEN 4 ELSE 8

\* the least k with n <= 2^k
Height(n) == CHOOSE k \in 0..3 : n <= Pow2(k) /\ (k = 0 \/ n > Pow2(k - 1))

\* The tree read from the root down: a tree of height k over at most
\* 2^(k-1) hashes is the tree one lower paired with itself (the copy made
\* when that level was odd); over more, its first 2^(k-1) hashes make the
\* left half and the others the right half.
RECURSIVE Tree(_, _)
Tree(hs, k) ==
    IF k = 0 THEN hs[1]
    ELSE IF Len(hs) <= Pow2(k - 1)
         THEN Node(Tree(hs, k - 1), Tree(hs, k - 1))
         ELSE Node(Tree(SubSeq(hs, 1, Pow2(k - 1)), k - 1),
                   Tree(SubSeq(hs, Pow2(k - 1) + 1, Len(hs)), k - 1))

\* C38: merkle of the empty batch is the hash of "empty"; of one item, the
\* hash of the item; of more, the root of the tree over the hashes of the
\* items in which adjacent hashes are paired level by level and the last hash
\* of an odd level is paired with itself; and a batch of odd size n >= 3
\* has the root of the batch with its last item appended once more.
C38_MerkleRoot ==
    last.op = "merkle" =>
        LET items == last.batch
            n == Len(items)
            leaves == [i \in 1..n |-> Leaf(items[i])]
        IN /\ n = 0 => last.result = dual_hash(Bytes("empty"))
           /\ n = 1 => last.result = Leaf(items[1])
           /\ n = 2 => last.result = Node(Leaf(items[1]), Leaf(items[2]))
           /\ n >= 1 => last.result = Tree(leaves, Height(n))
           /\ (n >= 3 /\ n % 2 = 1)
                  => last.result = merkle(Append(items, items[n]))

\* a batch of five items, the last differing from the one before it
C38_Witness ==
    /\ last.op = "merkle"
    /\ Len(last.batch) = 5
    /\ last.batch[5] # last.batch[4]
    /\ last.result = merkle(Append(last.batch, last.batch[5]))

\* ---------------------------------------------------------------- C39
\* the phases of the milestones of a ship, in order
MilestonePhases(sh) == [i \in 1..Len(sh.milestones) |-> sh.milestones[i].phase]

\* C39: a ship is in the phase its phase_index names; each successful
\* advance_phase raises phase_index by one and appends one milestone
\* receipt; and the phases of the milestones are the first phase_index + 1
\* lifecycle phases, a sequence validate_phase_sequence accepts.
C39_PhaseIndexInvariant ==
    ship # NoShip =>
        /\ ship.phase_index \in 0..(Len(LIFECYCLE_PHASES) - 1)
        /\ ship.current_phase = LIFECYCLE_PHASES[ship.phase_index + 1]
        /\ (last.op = "advance_phase" /\ last.exc = None) =>
               /\ ship.phase_index = last.before.phase_index + 1
               /\ ship.milestones =
                      Append(last.before.milestones,
                             ship.milestones[Len(ship.milestones)])
               /\ ship.receipts =
                      Append(last.before.receipts,
                             ship.milestones[Len(ship.milestones)])
               /\ ship.milestones[Len(ship.milestones)].receipt_type = "milestone"
               /\ ship.milestones[Len(ship.milestones)].phase = last.phase
        /\ MilestonePhases(ship) = SubSeq(LIFECYCLE_PHASES, 1, ship.phase_index + 1)
        /\ ValidateError(MilestonePhases(ship)) = None
        /\ validate_phase_sequence(MilestonePhases(ship))

\* advance_phase took the ship from LAUNCH to FITTING_OUT
C39_Witness ==
    /\ last.op = "advance_phase"
    /\ last.exc = None
    /\ last.before.current_phase = "LAUNCH"
    /\ ship.current_phase = "FITTING_OUT"
    /\ Len(ship.milestones) = 5
    /\ validate_phase_sequence(MilestonePhases(ship))

====
